---- MODULE Spec2Model ----
(***************************************************************************)
(* Boid flock engine (src/src/components/boids/utils.ts) and particle      *)
(* field engine (src/src/components/floating/FloatingPointsSimulation.ts), *)
(* with the angle helpers they use.                                         *)
(*                                                                         *)
(* Numbers.  The source computes in IEEE doubles; the model computes in    *)
(* fixed point on integers:                                                *)
(*   - an angle is an integer number of units of pi/1800 (a tenth of a     *)
(*     degree), so Pi = 1800 and 2*pi = 3600 exactly;                      *)
(*   - a boid coordinate is an integer number of pixels;                   *)
(*   - a particle coordinate or velocity is an integer number of 1/1000    *)
(*     pixel (FP = 1000);                                                  *)
(*   - Math.cos, Math.sin, Math.atan2, Math.sqrt are table or search based *)
(*     integer versions (Cos1000, Sin1000, Atan2, Sqrt).                   *)
(* Math.random() is a pseudo-random generator: its hidden state is the     *)
(* variable rng, its seed is chosen freely in Init.                        *)
(***************************************************************************)
EXTENDS Integers, Sequences, FiniteSets, TLC

VARIABLES
  engine,            \* which hook the view mounts: "boids", "field", or "distortion",
                     \* the variant of the particle hook with the pointer forces
  mounted,           \* "no" before the effect ran, "yes" after, "disposed" after cleanup
  canvasW, canvasH,  \* canvas.width, canvas.height
  isPaused,          \* isPausedRef.current
  mouseActive,       \* isMouseActiveRef.current
  mousePos,          \* mousePositionRef.current
  rng,               \* hidden state of Math.random
  rafPending,        \* a requestAnimationFrame callback is queued
  boids,             \* boidsRef.current
  nextBoidId,        \* nextBoidIdRef.current
  textBounds,        \* textBoundsRef.current
  points,            \* pointsRef.current
  nextId,            \* nextIdRef.current
  connectionRadius,  \* connectionRadiusRef.current
  ticks,             \* number of animate() calls so far
  stepCount,         \* number of update steps executed so far (paused calls return
                     \* at once and execute none)
  drawCount,         \* number of draw() calls so far
  events,            \* number of environment events (resize, pause, pointer) so far
  fn, args, res,     \* harness of the pure helpers: function applied, inputs, result
  isFadedOut,        \* BoidsCanvas: the state isFadedOut
  pauseTimers        \* BoidsCanvas: pending timers of triggerFadeOut, each to call
                     \* setIsPaused(true)

vars == <<engine, mounted, canvasW, canvasH, isPaused, mouseActive, mousePos, rng,
          rafPending, boids, nextBoidId, textBounds, points, nextId,
          connectionRadius, ticks, stepCount, drawCount, events, fn, args, res,
          isFadedOut, pauseTimers>>

engineVars == <<engine, mounted, canvasW, canvasH, isPaused, mouseActive, mousePos, rng,
                rafPending, boids, nextBoidId, textBounds, points, nextId,
                connectionRadius, ticks, stepCount, drawCount, events,
                isFadedOut, pauseTimers>>

fnVars == <<fn, args, res>>

----------------------------------------------------------------------------
(* Integer arithmetic standing for the doubles of the source.              *)

Abs(n) == IF n < 0 THEN -n ELSE n

Min(a, b) == IF a <= b THEN a ELSE b

Max(a, b) == IF a >= b THEN a ELSE b

Sign(n) == IF n < 0 THEN -1 ELSE IF n > 0 THEN 1 ELSE 0

\* n / d rounded to the nearest integer, halves away from zero (d > 0)
RoundDiv(n, d) == Sign(n) * ((2 * Abs(n) + d) \div (2 * d))

\* Math.round(n / d) for n >= 0, d > 0: halves round up
MathRound(n, d) == (2 * n + d) \div (2 * d)

Pi == 1800

TwoPi == 2 * Pi

\* 1000 * sin of 0..90 degrees
SinTable ==
  <<0, 17, 35, 52, 70, 87, 105, 122, 139, 156, 174, 191, 208, 225, 242, 259,
    276, 292, 309, 326, 342, 358, 375, 391, 407, 423, 438, 454, 469, 485, 500,
    515, 530, 545, 559, 574, 588, 602, 616, 629, 643, 656, 669, 682, 695, 707,
    719, 731, 743, 755, 766, 777, 788, 799, 809, 819, 829, 839, 848, 857, 866,
    875, 883, 891, 899, 906, 914, 921, 927, 934, 940, 946, 951, 956, 961, 966,
    970, 974, 978, 982, 985, 988, 990, 993, 995, 996, 998, 999, 999, 1000, 1000>>

\* the angle a reduced to whole degrees in 0..359
Degrees(a) == (((a % TwoPi) + 5) \div 10) % 360

\* 1000 * Math.sin(a)
Sin1000(a) ==
  LET d == Degrees(a)
  IN  IF d <= 90 THEN SinTable[d + 1]
      ELSE IF d <= 180 THEN SinTable[180 - d + 1]
      ELSE IF d <= 270 THEN -SinTable[d - 180 + 1]
      ELSE -SinTable[360 - d + 1]

\* 1000 * Math.cos(a)
Cos1000(a) == Sin1000(a + Pi \div 2)

\* atan(i / 32) for i = 0..32, in angle units
AtanTable ==
  <<0, 18, 36, 54, 71, 89, 106, 123, 140, 157, 174, 190, 206, 221, 236, 251,
    266, 280, 294, 307, 320, 333, 345, 357, 369, 380, 391, 402, 412, 422, 432,
    441, 450>>

\* atan(y / x) for 0 <= y <= x, x > 0
AtanOctant(y, x) == AtanTable[RoundDiv(y * (Len(AtanTable) - 1), x) + 1]

\* atan2 for x >= 0, y >= 0, not both zero: 0..Pi/2
AtanQuadrant(y, x) ==
  IF y <= x THEN AtanOctant(y, x) ELSE Pi \div 2 - AtanOctant(x, y)

\* Math.atan2(y, x), in (-Pi, Pi]; Math.atan2(0, 0) is 0
Atan2(y, x) ==
  IF x = 0 /\ y = 0 THEN 0
  ELSE IF x >= 0 /\ y >= 0 THEN AtanQuadrant(y, x)
  ELSE IF x < 0 /\ y >= 0 THEN Pi - AtanQuadrant(y, -x)
  ELSE IF x < 0 /\ y < 0 THEN AtanQuadrant(-y, -x) - Pi
  ELSE -AtanQuadrant(-y, x)

RECURSIVE SqrtBits(_, _, _)
\* the largest r with r * r <= n, found bit by bit from the step b down
SqrtBits(n, r, b) ==
  IF b = 0 THEN r
  ELSE IF r + b <= n \div (r + b) THEN SqrtBits(n, r + b, b \div 2)
       ELSE SqrtBits(n, r, b \div 2)

\* floor(Math.sqrt(n)) for 0 <= n < 2^31
Sqrt(n) == SqrtBits(n, 0, 32768)

----------------------------------------------------------------------------
(* utils.ts: the angle helpers.                                            *)

\* a faulty getSmallestAngleDifference: the direct difference, never taken around
\* the circle
DirectAngleDifference(currentAngle, targetAngle) == targetAngle - currentAngle

getSmallestAngleDifference(currentAngle, targetAngle) ==
  LET a == targetAngle - currentAngle
      b == targetAngle - currentAngle + TwoPi
      c == targetAngle - currentAngle - TwoPi
  IN  IF Abs(a) <= Abs(b) /\ Abs(a) <= Abs(c) THEN a
      ELSE IF Abs(b) <= Abs(a) /\ Abs(b) <= Abs(c) THEN b
      ELSE c

normalizeAngle(angle) ==
  IF angle >= 0 THEN angle % TwoPi
  ELSE TwoPi - ((-angle) % TwoPi)

\* a faulty getTorusDistance: the canvas size is added where it is to be
\* subtracted, and subtracted where it is to be added
getTorusDistanceAway(x1, y1, x2, y2, w, h) ==
  LET dx0 == x2 - x1
      dy0 == y2 - y1
      dx == IF 2 * Abs(dx0) > w
            THEN (IF dx0 > 0 THEN dx0 + w ELSE dx0 - w)
            ELSE dx0
      dy == IF 2 * Abs(dy0) > h
            THEN (IF dy0 > 0 THEN dy0 + h ELSE dy0 - h)
            ELSE dy0
  IN  [dx |-> dx, dy |-> dy, distanceSquared |-> dx * dx + dy * dy]

\* getTorusDistance of updateBoids, with the canvas size it closes over
getTorusDistance(x1, y1, x2, y2, w, h) ==
  LET dx0 == x2 - x1
      dy0 == y2 - y1
      dx == IF 2 * Abs(dx0) > w
            THEN (IF dx0 > 0 THEN dx0 - w ELSE dx0 + w)
            ELSE dx0
      dy == IF 2 * Abs(dy0) > h
            THEN (IF dy0 > 0 THEN dy0 - h ELSE dy0 + h)
            ELSE dy0
  IN  [dx |-> dx, dy |-> dy, distanceSquared |-> dx * dx + dy * dy]

----------------------------------------------------------------------------
(* Math.random.                                                            *)

\* number of states of the generator; a draw is the fraction rng / RngMod of [0, 1)
RngMod == 8

\* the generator's state after one draw
NextRng(s) == (s + 5) % RngMod

\* the generator's state after n draws
RECURSIVE RngAfter(_, _)
RngAfter(s, n) == IF n = 0 THEN s ELSE RngAfter(NextRng(s), n - 1)

\* Math.random() * span, for the draw made in state s
RandomTimes(s, span) == (s * span) \div RngMod

----------------------------------------------------------------------------
(* boids/constants.ts.  Strengths are in 1/1000, angles in angle units.    *)

BOID_DENSITY == 1

MAX_SPEED == 6

MIN_SPEED == 6

TURNING_HISTORY_LENGTH == 7

SPEED_SMOOTHING == 1

\* 0.1 rad
ANGLE_INTERPOLATE == 57

\* 10 degrees
MIN_TURN_THRESHOLD == 100

LOOKING_ANGLE == (Pi * 3) \div 2

COHESION_RADIUS == 30000

SEPARATION_DISTANCE == 800

ALIGNMENT_RADIUS == 30000

\* 0.02
COHESION_STRENGTH == 20

\* 1.0
SEPARATION_STRENGTH == 1000

\* 1.5
ALIGNMENT_STRENGTH == 1500

\* 0.035
MOUSE_ATTRACTION_STRENGTH == 35

MOUSE_ATTRACTION_RADIUS == 1005000

TEXT_AVOIDANCE_DISTANCE == 150

SPAWN_MARGIN == 50

\* x * strength, the strength in 1/1000
Scaled(x, strength) == RoundDiv(x * strength, 1000)

----------------------------------------------------------------------------
(* utils.ts, useBoidsSimulation: population.                               *)

\* width of 'TRISTAN WINATA' in bold 120px Arial, as measureText reports it
TextWidth == 1000

NoMouse == <<>>

NoTextBounds == [x |-> 0, y |-> 0, width |-> 0, height |-> 0]

createTextBounds(w, h) ==
  LET textHeight == 120
      padding == 30
  IN  [x |-> RoundDiv(w - TextWidth, 2) - padding,
       y |-> RoundDiv(h - textHeight, 2) - padding,
       width |-> TextWidth + padding * 2,
       height |-> textHeight + padding * 2]

getTargetBoidCount(w, h) == MathRound(w * h * BOID_DENSITY, 10000)

isNearText(tb, x, y, distance) ==
  LET expandedX == tb.x - distance
      expandedY == tb.y - distance
      expandedWidth == tb.width + distance * 2
      expandedHeight == tb.height + distance * 2
  IN  /\ x >= expandedX
      /\ x <= expandedX + expandedWidth
      /\ y >= expandedY
      /\ y <= expandedY + expandedHeight

\* a spawn without the loop: the first candidate is kept wherever it falls
SpawnOnce(s, attempts, margin, distance, w, h, tb) ==
  [x |-> margin + RandomTimes(s, w - margin * 2),
   y |-> margin + RandomTimes(NextRng(s), h - margin * 2),
   rng |-> RngAfter(s, 2), attempts |-> attempts + 1]

\* the do-while of initBoids and adjustBoidCount: candidates are drawn until one is
\* away from the text or 100 were tried; the last one drawn is kept
RECURSIVE SpawnPosition(_, _, _, _, _, _, _)
SpawnPosition(s, attempts, margin, distance, w, h, tb) ==
  LET x == margin + RandomTimes(s, w - margin * 2)
      y == margin + RandomTimes(NextRng(s), h - margin * 2)
      s2 == RngAfter(s, 2)
      n == attempts + 1
  IN  IF isNearText(tb, x, y, distance) /\ n < 100
      THEN SpawnPosition(s2, n, margin, distance, w, h, tb)
      ELSE [x |-> x, y |-> y, rng |-> s2, attempts |-> n]

\* The state the effect's closures share is passed as a record st:
\* [boids, nextBoidId, rng, w, h, tb, steps], with w, h the canvas size, tb the
\* text bounds and steps the number of update steps executed so far.

\* a faulty id: the index the boid is pushed at, which a removed boid had
ReusedBoidId(st) == Len(st.boids)

\* id: nextBoidIdRef.current++, the value read
NewBoidId(st) == st.nextBoidId

\* one boid pushed by initBoids / adjustBoidCount.  The field deltas is a history
\* variable: every delta ever pushed to turningHistory, oldest first.
SpawnBoid(st, margin, distance) ==
  LET pos == SpawnPosition(st.rng, 0, margin, distance, st.w, st.h, st.tb)
      angle == RandomTimes(pos.rng, TwoPi)
  IN  [st EXCEPT
         !.boids = Append(st.boids,
                     [id |-> NewBoidId(st), x |-> pos.x, y |-> pos.y, angle |-> angle,
                      turningHistory |-> <<>>, currentSpeed |-> MAX_SPEED,
                      deltas |-> <<>>]),
         !.nextBoidId = st.nextBoidId + 1,
         !.rng = NextRng(pos.rng)]

RECURSIVE SpawnBoids(_, _, _, _)
SpawnBoids(st, n, margin, distance) ==
  IF n <= 0 THEN st
  ELSE SpawnBoids(SpawnBoid(st, margin, distance), n - 1, margin, distance)

initBoids(st) ==
  SpawnBoids([st EXCEPT !.boids = <<>>, !.nextBoidId = 0],
             getTargetBoidCount(st.w, st.h), 50, 150)

\* a faulty splice: one boid goes, however many are too many
SpliceTailOne(bs, n) == SubSeq(bs, 1, Len(bs) - 1)

\* boidsRef.current.splice(-n, n): the last n boids go
SpliceTail(bs, n) == SubSeq(bs, 1, Len(bs) - n)

adjustBoidCount(st) ==
  LET targetCount == getTargetBoidCount(st.w, st.h)
      currentCount == Len(st.boids)
      difference == targetCount - currentCount
  IN  IF Abs(difference) < 1 THEN st
      ELSE IF difference > 0
      THEN SpawnBoids(st, difference, SPAWN_MARGIN, TEXT_AVOIDANCE_DISTANCE)
      ELSE [st EXCEPT !.boids = SpliceTail(st.boids, Abs(difference))]

resizeCanvas(st, width, height) ==
  IF st.w # width \/ st.h # height
  THEN LET sized == [st EXCEPT !.w = width, !.h = height,
                               !.tb = createTextBounds(width, height)]
       IN  IF Len(st.boids) > 0 THEN adjustBoidCount(sized) ELSE sized
  ELSE st

----------------------------------------------------------------------------
(* utils.ts, updateBoids: one boid's frame.  bs is the live array: boids   *)
(* before index i already hold this frame's values.                         *)

\* the wrap at the top of the forEach body: one correction per axis
WrapCoordinate(v, size) ==
  IF v < 0 THEN v + size ELSE IF v > size THEN v - size ELSE v

\* the nearest-neighbour scan; idx = 0 stands for nearestBoid = null
RECURSIVE NearestFrom(_, _, _, _, _, _)
NearestFrom(bs, b, j, best, w, h) ==
  IF j > Len(bs) THEN best
  ELSE IF bs[j].id = b.id THEN NearestFrom(bs, b, j + 1, best, w, h)
  ELSE LET t == getTorusDistance(b.x, b.y, bs[j].x, bs[j].y, w, h)
       IN  IF best.idx = 0 \/ t.distanceSquared < best.distanceSquared
           THEN NearestFrom(bs, b, j + 1,
                            [idx |-> j, distanceSquared |-> t.distanceSquared,
                             dx |-> t.dx, dy |-> t.dy], w, h)
           ELSE NearestFrom(bs, b, j + 1, best, w, h)

NoNearest == [idx |-> 0, distanceSquared |-> 0, dx |-> 0, dy |-> 0]

\* the cohesion scan: sums of the torus-adjusted positions within COHESION_RADIUS
RECURSIVE CohesionFrom(_, _, _, _, _, _)
CohesionFrom(bs, b, j, acc, w, h) ==
  IF j > Len(bs) THEN acc
  ELSE IF bs[j].id = b.id THEN CohesionFrom(bs, b, j + 1, acc, w, h)
  ELSE LET t == getTorusDistance(b.x, b.y, bs[j].x, bs[j].y, w, h)
       IN  IF t.distanceSquared < COHESION_RADIUS
           THEN CohesionFrom(bs, b, j + 1,
                             [centerX |-> acc.centerX + b.x + t.dx,
                              centerY |-> acc.centerY + b.y + t.dy,
                              nearbyCount |-> acc.nearbyCount + 1], w, h)
           ELSE CohesionFrom(bs, b, j + 1, acc, w, h)

NoTurn == [delta |-> 0, fired |-> FALSE]

\* steering towards an angle by a share of the angle difference
SteerTowards(angle, target, strength) ==
  LET angleDiff == getSmallestAngleDifference(angle, target)
  IN  IF Abs(angleDiff) > MIN_TURN_THRESHOLD
      THEN [delta |-> Scaled(angleDiff, strength), fired |-> TRUE]
      ELSE NoTurn

Cohesion(bs, b, w, h) ==
  LET acc == CohesionFrom(bs, b, 1,
                          [centerX |-> 0, centerY |-> 0, nearbyCount |-> 0], w, h)
  IN  IF acc.nearbyCount > 0
      THEN LET centerX == RoundDiv(acc.centerX, acc.nearbyCount)
               centerY == RoundDiv(acc.centerY, acc.nearbyCount)
               t == getTorusDistance(b.x, b.y, centerX, centerY, w, h)
           IN  SteerTowards(b.angle, Atan2(t.dy, t.dx), COHESION_STRENGTH)
      ELSE NoTurn

MouseAttraction(b, w, h, mActive, mPos) ==
  IF mActive /\ mPos # NoMouse
  THEN LET t == getTorusDistance(b.x, b.y, mPos[1], mPos[2], w, h)
       IN  IF t.distanceSquared < MOUSE_ATTRACTION_RADIUS
           THEN SteerTowards(b.angle, Atan2(t.dy, t.dx), MOUSE_ATTRACTION_STRENGTH)
           ELSE NoTurn
  ELSE NoTurn

\* a fixed turn, its direction given by the sign of side
FixedTurn(side, amount) ==
  IF side > 0 THEN [delta |-> amount, fired |-> TRUE]
  ELSE IF side < 0 THEN [delta |-> -amount, fired |-> TRUE]
  ELSE NoTurn

\* neither separation nor alignment
NoSeparationAlignment(bs, b, nearest) == NoTurn

\* separation from, or alignment with, the nearest boid
SeparationAlignment(bs, b, nearest) ==
  IF nearest.idx # 0
  THEN LET angleToNearest == Atan2(nearest.dy, nearest.dx)
           posAngle == getSmallestAngleDifference(b.angle, angleToNearest)
       IN  IF Abs(posAngle) < LOOKING_ANGLE
           THEN IF nearest.distanceSquared < SEPARATION_DISTANCE
                THEN IF Abs(posAngle) > MIN_TURN_THRESHOLD
                     THEN FixedTurn(-posAngle,
                                    Scaled(ANGLE_INTERPOLATE, SEPARATION_STRENGTH))
                     ELSE NoTurn
                ELSE IF nearest.distanceSquared < ALIGNMENT_RADIUS
                THEN LET dtheta == getSmallestAngleDifference(
                                     b.angle, bs[nearest.idx].angle)
                     IN  IF Abs(dtheta) > MIN_TURN_THRESHOLD
                         THEN FixedTurn(dtheta,
                                        Scaled(ANGLE_INTERPOLATE, ALIGNMENT_STRENGTH))
                         ELSE NoTurn
                ELSE NoTurn
           ELSE NoTurn
  ELSE NoTurn

\* a faulty push: beyond TURNING_HISTORY_LENGTH the newest delta goes (pop() for
\* shift())
PushTurnDropNewest(history, delta) ==
  LET pushed == Append(history, delta)
  IN  IF Len(pushed) > TURNING_HISTORY_LENGTH
      THEN SubSeq(pushed, 1, TURNING_HISTORY_LENGTH)
      ELSE pushed

\* boid.turningHistory.push(delta), then shift() beyond TURNING_HISTORY_LENGTH
PushTurn(history, delta) ==
  LET pushed == Append(history, delta)
  IN  IF Len(pushed) > TURNING_HISTORY_LENGTH THEN Tail(pushed) ELSE pushed

RECURSIVE SumAbs(_)
SumAbs(q) == IF q = <<>> THEN 0 ELSE Abs(Head(q)) + SumAbs(Tail(q))

\* turningHistory.slice(-TURNING_HISTORY_LENGTH)
RecentTurns(history) ==
  SubSeq(history, Max(1, Len(history) - TURNING_HISTORY_LENGTH + 1), Len(history))

\* the speed aimed at: below MAX_SPEED while the boid keeps turning one way.
\* 0.02 rad is 11.459 angle units, 0.15 rad is 85.944
TargetSpeed(history) ==
  IF Len(history) >= 3
  THEN LET recentTurns == RecentTurns(history)
           n == Len(recentTurns)
           sum == SumAbs(recentTurns)
           allSameSign == \/ \A k \in 1..n : recentTurns[k] >= 0
                          \/ \A k \in 1..n : recentTurns[k] <= 0
       IN  IF allSameSign /\ sum * 1000 > 11459 * n
           THEN MAX_SPEED - RoundDiv((MAX_SPEED - MIN_SPEED)
                                       * Min(sum * 1000, 85944 * n), 85944 * n)
           ELSE MAX_SPEED
  ELSE MAX_SPEED

\* the body of boids.forEach for the boid at index i
StepBoid(bs, i, w, h, mActive, mPos) ==
  LET b == [bs[i] EXCEPT !.x = WrapCoordinate(bs[i].x, w),
                         !.y = WrapCoordinate(bs[i].y, h)]
      live == [bs EXCEPT ![i] = b]
      nearest == NearestFrom(live, b, 1, NoNearest, w, h)
      cohesion == Cohesion(live, b, w, h)
      mouse == MouseAttraction(b, w, h, mActive, mPos)
      sepAlign == SeparationAlignment(live, b, nearest)
      boidInteractionAngleDelta == cohesion.delta + mouse.delta + sepAlign.delta
      hasBoidInteraction == cohesion.fired \/ mouse.fired \/ sepAlign.fired
      angle == IF hasBoidInteraction
               THEN normalizeAngle(b.angle + boidInteractionAngleDelta)
               ELSE b.angle
      history == PushTurn(b.turningHistory, boidInteractionAngleDelta)
      targetSpeed == TargetSpeed(history)
      currentSpeed == b.currentSpeed
                        + (targetSpeed - b.currentSpeed) * SPEED_SMOOTHING
  IN  [b EXCEPT !.angle = angle,
                !.turningHistory = history,
                !.currentSpeed = currentSpeed,
                !.x = b.x + RoundDiv(Cos1000(angle) * currentSpeed, 1000),
                !.y = b.y + RoundDiv(Sin1000(angle) * currentSpeed, 1000),
                !.deltas = Append(b.deltas, boidInteractionAngleDelta)]

RECURSIVE StepBoidsFrom(_, _, _, _, _, _)
StepBoidsFrom(bs, i, w, h, mActive, mPos) ==
  IF i > Len(bs) THEN bs
  ELSE StepBoidsFrom([bs EXCEPT ![i] = StepBoid(bs, i, w, h, mActive, mPos)],
                     i + 1, w, h, mActive, mPos)

\* a faulty updateBoids: the pause flag is not looked at
updateBoidsUnpaused(st, paused, mActive, mPos) ==
  LET adjusted == adjustBoidCount(st)
  IN  [adjusted EXCEPT
         !.boids = StepBoidsFrom(adjusted.boids, 1, st.w, st.h, mActive, mPos),
         !.steps = st.steps + 1]

updateBoids(st, paused, mActive, mPos) ==
  IF paused THEN st
  ELSE LET adjusted == adjustBoidCount(st)
       IN  [adjusted EXCEPT
              !.boids = StepBoidsFrom(adjusted.boids, 1, st.w, st.h, mActive, mPos),
              !.steps = st.steps + 1]

----------------------------------------------------------------------------
(* floating/constants.ts.  Lengths and speeds are in 1/1000 pixel, factors *)
(* in 1/1000.                                                              *)

\* units per pixel of the particle field
FP == 1000

PARTICLE_DENSITY == 20

\* 0.3
SIMULATION_PADDING == 300

\* 0.3
WANDER_SPEED == 300

\* 0.02 pixel
WANDER_STRENGTH == 20

\* 0.8 pixel per frame
FIELD_MAX_SPEED == 800

\* 0.995
DAMPING == 995

\* 100 pixels
REPULSION_RADIUS == 100000

\* 1.5 pixels
REPULSION_STRENGTH == 1500

\* 80 pixels
WALL_MARGIN == 80000

\* 0.1 pixel
WALL_REPULSION_STRENGTH == 100

\* 1.8
CONNECTION_RADIUS == 1800

\* the warm-up of the effect: for (let i = 0; i < 60; i++) updatePoints()
WARMUP_STEPS == 60

----------------------------------------------------------------------------
(* FloatingPointsSimulation.ts, useFloatingPoints: population.             *)

\* Math.sqrt(dx * dx + dy * dy); coarser beyond 30 pixels, to stay within 32 bits
Distance(dx, dy) ==
  IF Abs(dx) < 30000 /\ Abs(dy) < 30000
  THEN Sqrt(dx * dx + dy * dy)
  ELSE 10 * Sqrt((Abs(dx) \div 10) * (Abs(dx) \div 10)
                   + (Abs(dy) \div 10) * (Abs(dy) \div 10))

\* simWidth * simHeight in square pixels, times 100: (1 + 2 * 0.3)^2 = 2.56
PaddedArea100(w, h) ==
  (((1000 + 2 * SIMULATION_PADDING) * (1000 + 2 * SIMULATION_PADDING)) \div 10000) * w * h

getTargetParticleCount(w, h) ==
  MathRound(PaddedArea100(w, h) * PARTICLE_DENSITY, 100 * 100000)

\* avgSpacing * CONNECTION_RADIUS, with the division by targetCount of the source:
\* x / 0 is Infinity, 0 / 0 is NaN
ConnectionRadiusFor(w, h) ==
  LET targetCount == getTargetParticleCount(w, h)
      area100 == PaddedArea100(w, h)
  IN  IF targetCount = 0
      THEN [kind |-> IF area100 = 0 THEN "NaN" ELSE "Infinity", v |-> 0]
      ELSE [kind |-> "finite",
            v |-> (10 * Sqrt((area100 * 100) \div targetCount) * CONNECTION_RADIUS)
                    \div 1000]

\* The state the effect's closures share is passed as a record st:
\* [points, nextId, rng, connectionRadius, w, h, steps], with w, h the canvas
\* size and steps the number of update steps executed so far.

\* five draws: x, y, angle, wander speed, wander angle
createParticle(st, w, h) ==
  LET paddingX == w * SIMULATION_PADDING
      paddingY == h * SIMULATION_PADDING
      minX == -paddingX
      maxX == w * FP + paddingX
      minY == -paddingY
      maxY == h * FP + paddingY
      x == minX + RandomTimes(st.rng, maxX - minX)
      y == minY + RandomTimes(RngAfter(st.rng, 1), maxY - minY)
      angle == RandomTimes(RngAfter(st.rng, 2), TwoPi)
      individualWanderSpeed == 500 + RandomTimes(RngAfter(st.rng, 3), 1000)
  IN  [st EXCEPT
         !.points = Append(st.points,
                      [id |-> st.nextId, x |-> x, y |-> y, baseX |-> x, baseY |-> y,
                       vx |-> RoundDiv(Cos1000(angle) * WANDER_SPEED, 2000),
                       vy |-> RoundDiv(Sin1000(angle) * WANDER_SPEED, 2000),
                       wanderAngle |-> RandomTimes(RngAfter(st.rng, 4), TwoPi),
                       wanderSpeed |-> individualWanderSpeed]),
         !.nextId = st.nextId + 1,
         !.rng = RngAfter(st.rng, 5)]

RECURSIVE CreateParticles(_, _, _, _)
CreateParticles(st, n, w, h) ==
  IF n <= 0 THEN st ELSE CreateParticles(createParticle(st, w, h), n - 1, w, h)

initPoints(st) ==
  CreateParticles([st EXCEPT !.points = <<>>,
                             !.connectionRadius = ConnectionRadiusFor(st.w, st.h)],
                  getTargetParticleCount(st.w, st.h), st.w, st.h)

\* pointsRef.current.splice(targetCount)
SpliceFrom(ps, targetCount) == SubSeq(ps, 1, targetCount)

\* the reconciliation with the radius of the previous size left as it was
AdjustCountOnly(st) ==
  LET targetCount == getTargetParticleCount(st.w, st.h)
      currentCount == Len(st.points)
  IN  IF targetCount > currentCount
      THEN CreateParticles(st, targetCount - currentCount, st.w, st.h)
      ELSE [st EXCEPT !.points = SpliceFrom(st.points, targetCount)]

adjustParticleCount(st) ==
  LET targetCount == getTargetParticleCount(st.w, st.h)
      currentCount == Len(st.points)
      radiused == [st EXCEPT !.connectionRadius = ConnectionRadiusFor(st.w, st.h)]
  IN  IF targetCount > currentCount
      THEN CreateParticles(radiused, targetCount - currentCount, st.w, st.h)
      ELSE IF targetCount < currentCount
      THEN [radiused EXCEPT !.points = SpliceFrom(st.points, targetCount)]
      ELSE radiused

resizeCanvasField(st, width, height) ==
  IF st.w # width \/ st.h # height
  THEN LET isFirstInit == Len(st.points) = 0
           sized == [st EXCEPT !.w = width, !.h = height]
       IN  IF isFirstInit THEN initPoints(sized) ELSE adjustParticleCount(sized)
  ELSE st

----------------------------------------------------------------------------
(* FloatingPointsSimulation.ts, updatePoints.                              *)

\* the repulsion of the pair (i, j), i < j, on the velocities
RepelPair(ps, i, j) ==
  LET dx == ps[j].x - ps[i].x
      dy == ps[j].y - ps[i].y
      dist == Distance(dx, dy)
  IN  IF dist < REPULSION_RADIUS /\ dist > 0
      THEN LET force == RoundDiv((REPULSION_RADIUS - dist) * REPULSION_STRENGTH,
                                 REPULSION_RADIUS)
               fx == RoundDiv(dx * force, dist)
               fy == RoundDiv(dy * force, dist)
           IN  [ps EXCEPT ![i].vx = @ - fx, ![i].vy = @ - fy,
                          ![j].vx = @ + fx, ![j].vy = @ + fy]
      ELSE ps

\* the two nested loops over the pairs i < j
RECURSIVE RepelFrom(_, _, _)
RepelFrom(ps, i, j) ==
  IF i > Len(ps) THEN ps
  ELSE IF j > Len(ps) THEN RepelFrom(ps, i + 1, i + 2)
  ELSE RepelFrom(RepelPair(ps, i, j), i, j + 1)

\* (1 - dist / WALL_MARGIN) * WALL_REPULSION_STRENGTH within the margin, else nothing
WallForce(dist) ==
  IF dist < WALL_MARGIN
  THEN RoundDiv((WALL_MARGIN - dist) * WALL_REPULSION_STRENGTH, WALL_MARGIN)
  ELSE 0

\* no cap: the velocity as it is
UncappedSpeed(vx, vy) == [vx |-> vx, vy |-> vy]

\* velocity capped to FIELD_MAX_SPEED, direction kept
CapSpeed(vx, vy) ==
  LET speed == Sqrt(vx * vx + vy * vy)
  IN  IF speed > FIELD_MAX_SPEED
      THEN [vx |-> RoundDiv(vx * FIELD_MAX_SPEED, speed),
            vy |-> RoundDiv(vy * FIELD_MAX_SPEED, speed)]
      ELSE [vx |-> vx, vy |-> vy]

\* the body of points.forEach, with the draw s of Math.random.
\* 0.3 rad is 172 angle units
StepPoint(p, s, w, h) ==
  LET wanderAngle == p.wanderAngle
                       + RoundDiv((2 * s - RngMod) * 172 * p.wanderSpeed,
                                  2 * RngMod * 1000)
      pushed == [vx |-> p.vx + RoundDiv(Cos1000(wanderAngle) * WANDER_STRENGTH, 1000),
                 vy |-> p.vy + RoundDiv(Sin1000(wanderAngle) * WANDER_STRENGTH, 1000)]
      capped == CapSpeed(pushed.vx, pushed.vy)
      vx == RoundDiv(capped.vx * DAMPING, 1000)
      vy == RoundDiv(capped.vy * DAMPING, 1000)
      x == p.x + vx
      y == p.y + vy
      minX == -(w * SIMULATION_PADDING)
      maxX == w * FP + w * SIMULATION_PADDING
      minY == -(h * SIMULATION_PADDING)
      maxY == h * FP + h * SIMULATION_PADDING
  IN  [p EXCEPT !.wanderAngle = wanderAngle,
                !.x = x,
                !.y = y,
                !.vx = vx + WallForce(x - minX) - WallForce(maxX - x),
                !.vy = vy + WallForce(y - minY) - WallForce(maxY - y)]

RECURSIVE StepPointsFrom(_, _, _, _, _)
StepPointsFrom(ps, i, s, w, h) ==
  IF i > Len(ps) THEN [points |-> ps, rng |-> s]
  ELSE StepPointsFrom([ps EXCEPT ![i] = StepPoint(ps[i], s, w, h)],
                      i + 1, NextRng(s), w, h)

updatePoints(st, paused) ==
  IF paused THEN st
  ELSE LET stepped == StepPointsFrom(RepelFrom(st.points, 1, 2), 1, st.rng, st.w, st.h)
       IN  [st EXCEPT !.points = stepped.points, !.rng = stepped.rng,
                      !.steps = st.steps + 1]

\* a faulty warm-up: no update is made
UpdatePointsNone(st, n, paused) == st

\* updatePoints called n times in a row
RECURSIVE UpdatePointsTimes(_, _, _)
UpdatePointsTimes(st, n, paused) ==
  IF n = 0 THEN st
  ELSE LET updated == updatePoints(st, paused)
       IN  IF updated.nextId >= 0   \* evaluates updated before the next call
           THEN UpdatePointsTimes(updated, n - 1, paused)
           ELSE updated

----------------------------------------------------------------------------
(* The two hooks as state machines.  A handler runs to completion (one      *)
(* JavaScript thread), so each is one action.                               *)

\* bound on the number of animate() calls
MaxTicks == 5

\* bound on the number of animate() calls where the turning history is followed
MaxLongTicks == 9

\* bound on the number of resize, pause and pointer events
MaxEvents == 2

\* container sizes the boid canvas is given: 0, 1 and 2 boids
BoidSizes == {<<70, 70>>, <<120, 120>>, <<200, 100>>}

\* container sizes the particle canvas is given: 0, 1 and 2 particles
FieldSizes == {<<30, 30>>, <<50, 50>>, <<60, 60>>}

\* pointer positions over the canvas
MousePositions == {<<100, 50>>}

BoidState ==
  [boids |-> boids, nextBoidId |-> nextBoidId, rng |-> rng,
   w |-> canvasW, h |-> canvasH, tb |-> textBounds, steps |-> stepCount]

FieldState ==
  [points |-> points, nextId |-> nextId, rng |-> rng,
   connectionRadius |-> connectionRadius, w |-> canvasW, h |-> canvasH,
   steps |-> stepCount]

\* the variables take the values of the record st of the boid hook
SetBoidState(st) ==
  /\ boids' = st.boids
  /\ nextBoidId' = st.nextBoidId
  /\ rng' = st.rng
  /\ canvasW' = st.w
  /\ canvasH' = st.h
  /\ textBounds' = st.tb
  /\ stepCount' = st.steps
  /\ UNCHANGED <<points, nextId, connectionRadius>>

\* the variables take the values of the record st of the particle hook
SetFieldState(st) ==
  /\ points' = st.points
  /\ nextId' = st.nextId
  /\ rng' = st.rng
  /\ connectionRadius' = st.connectionRadius
  /\ canvasW' = st.w
  /\ canvasH' = st.h
  /\ stepCount' = st.steps
  /\ UNCHANGED <<boids, nextBoidId, textBounds>>

Init ==
  /\ engine \in {"boids", "field"}
  /\ mounted = "no"
  /\ canvasW = 300
  /\ canvasH = 150
  /\ isPaused = FALSE
  /\ mouseActive = FALSE
  /\ mousePos = NoMouse
  /\ rng \in 0..(RngMod - 1)
  /\ rafPending = FALSE
  /\ boids = <<>>
  /\ nextBoidId = 0
  /\ textBounds = NoTextBounds
  /\ points = <<>>
  /\ nextId = 0
  /\ connectionRadius = [kind |-> "finite", v |-> CONNECTION_RADIUS]
  /\ ticks = 0
  /\ stepCount = 0
  /\ drawCount = 0
  /\ events = 0
  /\ fn = "none"
  /\ args = <<>>
  /\ res = <<>>
  /\ isFadedOut = FALSE
  /\ pauseTimers = 0

\* the effect of useBoidsSimulation: resizeCanvas(); initBoids(); animate();
BoidsMount(size) ==
  /\ engine = "boids"
  /\ mounted = "no"
  /\ LET st == updateBoids(initBoids(resizeCanvas(BoidState, size[1], size[2])),
                           isPaused, mouseActive, mousePos)
     IN  SetBoidState(st)
  /\ mounted' = "yes"
  /\ rafPending' = TRUE
  /\ ticks' = ticks + 1
  /\ drawCount' = drawCount + 1
  /\ UNCHANGED <<engine, isPaused, mouseActive, mousePos, events, fn, args, res,
                 isFadedOut, pauseTimers>>

\* animate of useBoidsSimulation, run by the queued frame callback, while fewer
\* than maxTicks calls were made
BoidsAnimateUpTo(maxTicks) ==
  /\ engine = "boids"
  /\ rafPending
  /\ ticks < maxTicks
  /\ SetBoidState(updateBoids(BoidState, isPaused, mouseActive, mousePos))
  /\ rafPending' = TRUE
  /\ ticks' = ticks + 1
  /\ drawCount' = drawCount + 1
  /\ UNCHANGED <<engine, mounted, isPaused, mouseActive, mousePos, events,
                 fn, args, res, isFadedOut, pauseTimers>>

BoidsAnimate == BoidsAnimateUpTo(MaxTicks)

BoidsAnimateLong == BoidsAnimateUpTo(MaxLongTicks)

\* handleResize of useBoidsSimulation: the container now has the given size
BoidsResize(size) ==
  /\ engine = "boids"
  /\ mounted = "yes"
  /\ events < MaxEvents
  /\ <<canvasW, canvasH>> # size
  /\ SetBoidState(resizeCanvas(BoidState, size[1], size[2]))
  /\ events' = events + 1
  /\ UNCHANGED <<engine, mounted, isPaused, mouseActive, mousePos, rafPending,
                 ticks, drawCount, fn, args, res, isFadedOut, pauseTimers>>

\* the effect of useFloatingPoints: resizeCanvas(); 60 warm-up updates; draw();
\* animate();
FieldMount(size) ==
  /\ engine = "field"
  /\ mounted = "no"
  /\ LET resized == resizeCanvasField(FieldState, size[1], size[2])
         warmed == UpdatePointsTimes(resized, WARMUP_STEPS, isPaused)
     IN  SetFieldState(updatePoints(warmed, isPaused))
  /\ mounted' = "yes"
  /\ rafPending' = TRUE
  /\ ticks' = ticks + 1
  /\ drawCount' = drawCount + 2
  /\ UNCHANGED <<engine, isPaused, mouseActive, mousePos, events, fn, args, res,
                 isFadedOut, pauseTimers>>

\* animate of useFloatingPoints, run by the queued frame callback
FieldAnimate ==
  /\ engine = "field"
  /\ rafPending
  /\ ticks < MaxTicks
  /\ SetFieldState(updatePoints(FieldState, isPaused))
  /\ rafPending' = TRUE
  /\ ticks' = ticks + 1
  /\ drawCount' = drawCount + 1
  /\ UNCHANGED <<engine, mounted, isPaused, mouseActive, mousePos, events,
                 fn, args, res, isFadedOut, pauseTimers>>

\* handleResize of useFloatingPoints
FieldResize(size) ==
  /\ engine = "field"
  /\ mounted = "yes"
  /\ events < MaxEvents
  /\ <<canvasW, canvasH>> # size
  /\ SetFieldState(resizeCanvasField(FieldState, size[1], size[2]))
  /\ events' = events + 1
  /\ UNCHANGED <<engine, mounted, isPaused, mouseActive, mousePos, rafPending,
                 ticks, drawCount, fn, args, res, isFadedOut, pauseTimers>>

\* BoidsCanvas: the effect that copies the isPaused state into isPausedRef
SetPaused(p) ==
  /\ mounted = "yes"
  /\ events < MaxEvents
  /\ p # isPaused
  /\ isPaused' = p
  /\ events' = events + 1
  /\ UNCHANGED <<engine, mounted, canvasW, canvasH, mouseActive, mousePos, rng,
                 rafPending, boids, nextBoidId, textBounds, points, nextId,
                 connectionRadius, ticks, stepCount, drawCount, fn, args, res,
                 isFadedOut, pauseTimers>>

\* BoidsCanvas, handleMouseMove outside the exclusion zones
MouseMove(pos) ==
  /\ mounted = "yes"
  /\ events < MaxEvents
  /\ mousePos # pos
  /\ mouseActive' = TRUE
  /\ mousePos' = pos
  /\ events' = events + 1
  /\ UNCHANGED <<engine, mounted, canvasW, canvasH, isPaused, rng,
                 rafPending, boids, nextBoidId, textBounds, points, nextId,
                 connectionRadius, ticks, stepCount, drawCount, fn, args, res,
                 isFadedOut, pauseTimers>>

\* BoidsCanvas, handleMouseLeave
MouseLeave ==
  /\ mounted = "yes"
  /\ events < MaxEvents
  /\ mouseActive
  /\ mouseActive' = FALSE
  /\ mousePos' = NoMouse
  /\ events' = events + 1
  /\ UNCHANGED <<engine, mounted, canvasW, canvasH, isPaused, rng,
                 rafPending, boids, nextBoidId, textBounds, points, nextId,
                 connectionRadius, ticks, stepCount, drawCount, fn, args, res,
                 isFadedOut, pauseTimers>>

\* a cleanup that removes the listener and leaves the queued frame
LeakyUnmount ==
  /\ mounted = "yes"
  /\ mounted' = "disposed"
  /\ UNCHANGED <<engine, canvasW, canvasH, isPaused, mouseActive, mousePos, rng,
                 rafPending, boids, nextBoidId, textBounds, points, nextId,
                 connectionRadius, ticks, stepCount, drawCount, events,
                 fn, args, res, isFadedOut, pauseTimers>>

\* the cleanup of the effect: the listener goes, the queued frame is cancelled
Unmount ==
  /\ mounted = "yes"
  /\ mounted' = "disposed"
  /\ rafPending' = FALSE
  /\ UNCHANGED <<engine, canvasW, canvasH, isPaused, mouseActive, mousePos, rng,
                 boids, nextBoidId, textBounds, points, nextId,
                 connectionRadius, ticks, stepCount, drawCount, events,
                 fn, args, res, isFadedOut, pauseTimers>>

Next ==
  \/ \E size \in BoidSizes : BoidsMount(size)
  \/ BoidsAnimate
  \/ \E size \in BoidSizes : BoidsResize(size)
  \/ \E size \in FieldSizes : FieldMount(size)
  \/ FieldAnimate
  \/ \E size \in FieldSizes : FieldResize(size)
  \/ \E p \in BOOLEAN : SetPaused(p)
  \/ \E pos \in MousePositions : MouseMove(pos)
  \/ MouseLeave
  \/ Unmount

Spec == Init /\ [][Next]_vars

\* the boid hook alone, without resizes, over more frames
HistoryInit == Init /\ engine = "boids"

HistoryNext ==
  \/ \E size \in BoidSizes : BoidsMount(size)
  \/ BoidsAnimateLong
  \/ \E p \in BOOLEAN : SetPaused(p)
  \/ \E pos \in MousePositions : MouseMove(pos)
  \/ MouseLeave

SpecHistory == HistoryInit /\ [][HistoryNext]_vars

----------------------------------------------------------------------------
(* BoidsCanvas: the fade-out of the home view and the return to it, around  *)
(* the particle hook.  A state setter, the render and the effect that       *)
(* copies isPaused into isPausedRef are one step.                           *)

ViewInit == Init /\ engine = "field"

\* triggerFadeOut: setIsFadedOut(true); setTimeout(() => setIsPaused(true), 300)
TriggerFadeOut ==
  /\ mounted = "yes"
  /\ events < MaxEvents
  /\ ~isFadedOut
  /\ isFadedOut' = TRUE
  /\ pauseTimers' = pauseTimers + 1
  /\ events' = events + 1
  /\ UNCHANGED <<engine, mounted, canvasW, canvasH, isPaused, mouseActive, mousePos,
                 rng, rafPending, boids, nextBoidId, textBounds, points, nextId,
                 connectionRadius, ticks, stepCount, drawCount, fn, args, res>>

\* returnToHome, from the home item of the grid shown by triggerFadeOut:
\* setIsPaused(false); setIsFadedOut(false); no timer is cleared
ReturnToHome ==
  /\ mounted = "yes"
  /\ events < MaxEvents
  /\ isFadedOut
  /\ isPaused' = FALSE
  /\ isFadedOut' = FALSE
  /\ events' = events + 1
  /\ UNCHANGED <<engine, mounted, canvasW, canvasH, mouseActive, mousePos,
                 rng, rafPending, boids, nextBoidId, textBounds, points, nextId,
                 connectionRadius, ticks, stepCount, drawCount, fn, args, res,
                 pauseTimers>>

\* the callback of a timer of triggerFadeOut: setIsPaused(true)
PauseTimerFires ==
  /\ mounted = "yes"
  /\ pauseTimers > 0
  /\ isPaused' = TRUE
  /\ pauseTimers' = pauseTimers - 1
  /\ UNCHANGED <<engine, mounted, canvasW, canvasH, mouseActive, mousePos,
                 rng, rafPending, boids, nextBoidId, textBounds, points, nextId,
                 connectionRadius, ticks, stepCount, drawCount, events, fn, args, res,
                 isFadedOut>>

ViewNext ==
  \/ \E size \in FieldSizes : FieldMount(size)
  \/ FieldAnimate
  \/ TriggerFadeOut
  \/ ReturnToHome
  \/ PauseTimerFires

SpecView == ViewInit /\ [][ViewNext]_vars

----------------------------------------------------------------------------
(* The helpers of utils.ts applied to free inputs: one call per behaviour,  *)
(* the engine left unmounted.                                               *)

\* full turns, either side of 0, the angles given to normalizeAngle range over
MaxTurns == 2

\* angles of the grid per full turn
AnglesPerTurn == 24

\* largest canvas width and height given to getTorusDistance; the coordinates
\* range from one below 0 to one above it
MaxDim == 3

\* angles of [0, 2 pi): a grid, and the neighbours of 0, pi and 2 pi
TurnAngles ==
  {(k * TwoPi) \div AnglesPerTurn : k \in 0..(AnglesPerTurn - 1)}
    \cup {1, Pi - 1, Pi, Pi + 1, TwoPi - 1}

\* the angles of TurnAngles moved by whole turns: multiples of 2 pi of either
\* sign are among them
AngleInputs ==
  {t * TwoPi + a : t \in (-MaxTurns)..(MaxTurns - 1), a \in TurnAngles}
    \cup {MaxTurns * TwoPi}

TorusCoordinates == (-1)..(MaxDim + 1)

TorusDimensions == 0..MaxDim

HelpersInit == Init /\ engine = "boids" /\ rng = 0

\* normalizeAngle(angle)
CallNormalizeAngle(angle) ==
  /\ fn = "none"
  /\ fn' = "normalizeAngle"
  /\ args' = <<angle>>
  /\ res' = <<normalizeAngle(angle)>>
  /\ UNCHANGED engineVars

\* normalizeAngle applied to the value normalizeAngle returned
NormalizeAgain ==
  /\ fn = "normalizeAngle"
  /\ Len(res) = 1
  /\ res' = Append(res, normalizeAngle(res[1]))
  /\ UNCHANGED <<fn, args>>
  /\ UNCHANGED engineVars

\* getSmallestAngleDifference(currentAngle, targetAngle)
CallSmallestAngleDifference(currentAngle, targetAngle) ==
  /\ fn = "none"
  /\ fn' = "getSmallestAngleDifference"
  /\ args' = <<currentAngle, targetAngle>>
  /\ res' = <<getSmallestAngleDifference(currentAngle, targetAngle)>>
  /\ UNCHANGED engineVars

\* getTorusDistance(x1, y1, x2, y2) on a canvas of w by h
CallTorusDistance(x1, y1, x2, y2, w, h) ==
  /\ fn = "none"
  /\ fn' = "getTorusDistance"
  /\ args' = <<x1, y1, x2, y2, w, h>>
  /\ LET t == getTorusDistance(x1, y1, x2, y2, w, h)
     IN  res' = <<t.dx, t.dy, t.distanceSquared>>
  /\ UNCHANGED engineVars

\* one helper is applied to inputs of the sets above, or normalizeAngle is applied
\* again to its own result
HelpersNext ==
  \/ fn = "none" /\ \E angle \in AngleInputs : CallNormalizeAngle(angle)
  \/ NormalizeAgain
  \/ fn = "none" /\ \E currentAngle \in TurnAngles, targetAngle \in TurnAngles :
                      CallSmallestAngleDifference(currentAngle, targetAngle)
  \/ fn = "none" /\ \E x1 \in TorusCoordinates, y1 \in TorusCoordinates,
                       x2 \in TorusCoordinates, y2 \in TorusCoordinates,
                       w \in TorusDimensions, h \in TorusDimensions :
                      CallTorusDistance(x1, y1, x2, y2, w, h)

SpecHelpers == HelpersInit /\ [][HelpersNext]_vars

----------------------------------------------------------------------------
(* The body of the spawn loop of initBoids and adjustBoidCount applied to   *)
(* free canvases and states of Math.random: one boid per behaviour.         *)

\* canvas widths and heights: narrower and wider than the text, so that a candidate
\* may fall on either side of the expanded text rectangle
SpawnWidths == {200, 1100, 1500, 2000, 2400}

SpawnHeights == {100, 400, 600, 900}

SpawnInit == Init /\ engine = "boids"

\* one pass of the for loop of adjustBoidCount on a canvas of w by h with no boid yet;
\* the result is the flock and the value of attempts when the do-while was left
CallSpawnBoid(w, h) ==
  /\ fn = "none"
  /\ fn' = "SpawnBoid"
  /\ args' = <<w, h, rng>>
  /\ LET st == [BoidState EXCEPT !.w = w, !.h = h, !.tb = createTextBounds(w, h)]
     IN  res' = <<SpawnBoid(st, SPAWN_MARGIN, TEXT_AVOIDANCE_DISTANCE).boids,
                  SpawnPosition(st.rng, 0, SPAWN_MARGIN, TEXT_AVOIDANCE_DISTANCE,
                                w, h, st.tb).attempts>>
  /\ UNCHANGED engineVars

SpawnNext == fn = "none" /\ \E w \in SpawnWidths, h \in SpawnHeights : CallSpawnBoid(w, h)

SpecSpawn == SpawnInit /\ [][SpawnNext]_vars

----------------------------------------------------------------------------
(* FloatingPointsSimulation.ts, findConnections: the connection list of a   *)
(* frame, derived from the particle positions alone.                        *)

ANGULAR_SECTORS == 3

MAX_PER_SECTOR == 2

\* Math.PI / 6
ANGULAR_PROXIMITY_THRESHOLD == 300

\* a % m of JavaScript: the remainder has the sign of the dividend (m > 0)
JsRem(a, m) == Sign(a) * (Abs(a) % m)

getAngularSector(angle) ==
  LET normalizedAngle == (JsRem(angle, TwoPi) + TwoPi) % TwoPi
  IN  ((normalizedAngle * ANGULAR_SECTORS) \div TwoPi) % ANGULAR_SECTORS

\* the distance of two directions around the circle, as canAddConnection folds it
AngleGap(newAngle, existingAngle) ==
  LET angleDiff == Abs(newAngle - existingAngle)
  IN  IF angleDiff > Pi THEN TwoPi - angleDiff ELSE angleDiff

\* a nearbyCount that sees no accepted direction
NearbyNone(particleAngles, newAngle) == 0

\* the nearbyCount of canAddConnection
NearbyCount(particleAngles, newAngle) ==
  Cardinality({k \in 1..Len(particleAngles) :
                 AngleGap(newAngle, particleAngles[k]) < ANGULAR_PROXIMITY_THRESHOLD})

\* canAddConnection without its sector test
NearbyOnly(particleAngles, newAngle, sectorCounts) ==
  NearbyCount(particleAngles, newAngle) < MAX_PER_SECTOR

\* sectorCounts is indexed from 1: sectorCounts[s + 1] is the count of sector s
canAddConnection(particleAngles, newAngle, sectorCounts) ==
  IF sectorCounts[getAngularSector(newAngle) + 1] >= MAX_PER_SECTOR THEN FALSE
  ELSE NearbyCount(particleAngles, newAngle) < MAX_PER_SECTOR

RECURSIVE PairsFrom(_, _, _)
\* the index pairs of the double loop, in its order: i < j <= n
PairsFrom(n, i, j) ==
  IF i >= n THEN <<>>
  ELSE IF j > n THEN PairsFrom(n, i + 1, i + 2)
  ELSE <<<<i, j>>>> \o PairsFrom(n, i, j + 1)

\* one pair of the double loop as a potential connection
PotentialConnection(pts, pair) ==
  LET p1 == pts[pair[1]]
      p2 == pts[pair[2]]
      dx == p2.x - p1.x
      dy == p2.y - p1.y
  IN  [p1 |-> p1.id, p2 |-> p2.id, distance |-> Distance(dx, dy),
       angle1 |-> Atan2(dy, dx), angle2 |-> Atan2(-dy, -dx)]

\* potentialConnections before the sort
PotentialConnections(pts, maxDist) ==
  LET pairs == PairsFrom(Len(pts), 1, 2)
      all == [k \in 1..Len(pairs) |-> PotentialConnection(pts, pairs[k])]
  IN  SelectSeq(all, LAMBDA c : c.distance < maxDist)

RECURSIVE InsertByDistance(_, _)
\* c put behind every element of the sorted sequence that is not longer
InsertByDistance(sorted, c) ==
  IF sorted = <<>> THEN <<c>>
  ELSE IF sorted[Len(sorted)].distance <= c.distance THEN Append(sorted, c)
  ELSE Append(InsertByDistance(SubSeq(sorted, 1, Len(sorted) - 1), c),
              sorted[Len(sorted)])

\* the candidates left in the order of the double loop
LoopOrder(cs, k) == cs

RECURSIVE SortByDistance(_, _)
\* Array.prototype.sort by distance: stable, equal distances keep their order
SortByDistance(cs, k) ==
  IF k = 0 THEN <<>>
  ELSE InsertByDistance(SortByDistance(cs, k - 1), cs[k])

\* the maps and the list of findConnections before its greedy loop
NoConnections(pts) ==
  LET ids == {pts[k].id : k \in 1..Len(pts)}
  IN  [connections |-> <<>>,
       particleAngles |-> [id \in ids |-> <<>>],
       particleSectorCounts |-> [id \in ids |-> [s \in 1..ANGULAR_SECTORS |-> 0]]]

\* one turn of the greedy loop
AcceptConnection(acc, c) ==
  LET angles1 == acc.particleAngles[c.p1]
      angles2 == acc.particleAngles[c.p2]
      sectors1 == acc.particleSectorCounts[c.p1]
      sectors2 == acc.particleSectorCounts[c.p2]
      canP1Accept == canAddConnection(angles1, c.angle1, sectors1)
      canP2Accept == canAddConnection(angles2, c.angle2, sectors2)
      s1 == getAngularSector(c.angle1) + 1
      s2 == getAngularSector(c.angle2) + 1
  IN  IF canP1Accept /\ canP2Accept
      THEN [connections |-> Append(acc.connections,
                                   [p1 |-> c.p1, p2 |-> c.p2, distance |-> c.distance]),
            particleAngles |->
              [acc.particleAngles EXCEPT ![c.p1] = Append(@, c.angle1),
                                         ![c.p2] = Append(@, c.angle2)],
            particleSectorCounts |->
              [acc.particleSectorCounts EXCEPT ![c.p1][s1] = @ + 1,
                                               ![c.p2][s2] = @ + 1]]
      ELSE acc

RECURSIVE AcceptFrom(_, _, _)
AcceptFrom(acc, sorted, k) ==
  IF k > Len(sorted) THEN acc
  ELSE AcceptFrom(AcceptConnection(acc, sorted[k]), sorted, k + 1)

\* findConnections over the particles pts with connectionRadiusRef.current = maxDist;
\* the result carries the two maps next to the returned list
findConnections(pts, maxDist) ==
  LET potential == PotentialConnections(pts, maxDist)
  IN  AcceptFrom(NoConnections(pts), SortByDistance(potential, Len(potential)), 1)

----------------------------------------------------------------------------
(* findConnections applied to free particle positions: one call per         *)
(* behaviour, the engine left unmounted.                                    *)

\* most particles given to findConnections
MaxParticles == 4

\* particle positions in pixels: a fan around (0, 20) and a square beside it
ConnectionPositions ==
  {<<0, 20>>, <<30, 10>>, <<30, 20>>, <<38, 27>>, <<10, 20>>, <<10, 30>>, <<0, 30>>}

\* values of connectionRadiusRef.current; the engine's own is about 127 pixels
ConnectionRadii == {15 * FP, 32 * FP, 127 * FP}

\* the arrays of at most MaxParticles particles at distinct positions, ids from 0
ParticleArrays ==
  UNION {{[k \in 1..n |-> [id |-> k - 1, x |-> s[k][1] * FP, y |-> s[k][2] * FP]] :
            s \in {t \in [1..n -> ConnectionPositions] :
                     \A i \in 1..n, j \in 1..n : i # j => t[i] # t[j]}} :
         n \in 2..MaxParticles}

ConnectionsInit == Init /\ engine = "field" /\ rng = 0

\* findConnections() with pointsRef.current = pts, connectionRadiusRef.current = maxDist
CallFindConnections(pts, maxDist) ==
  /\ fn = "none"
  /\ fn' = "findConnections"
  /\ args' = <<pts, maxDist>>
  /\ res' = findConnections(pts, maxDist)
  /\ UNCHANGED engineVars

ConnectionsNext ==
  fn = "none" /\ \E pts \in ParticleArrays, maxDist \in ConnectionRadii :
                   CallFindConnections(pts, maxDist)

SpecConnections == ConnectionsInit /\ [][ConnectionsNext]_vars

----------------------------------------------------------------------------
(* FloatingPointsSimulation.ts, findTriangles.  A Set is the sequence of    *)
(* its elements in insertion order; a string is the sequence of its         *)
(* characters.                                                              *)

\* String(n) of a non-negative integer, as Array.prototype.join writes it
RECURSIVE NumberString(_)
NumberString(n) ==
  LET digits == <<"0", "1", "2", "3", "4", "5", "6", "7", "8", "9">>
  IN  IF n < 10 THEN <<digits[n + 1]>>
      ELSE NumberString(n \div 10) \o <<digits[(n % 10) + 1]>>

\* the first k of the ids joined by '-'
RECURSIVE JoinFirst(_, _)
JoinFirst(ids, k) ==
  IF k = 0 THEN <<>>
  ELSE IF k = 1 THEN NumberString(ids[1])
  ELSE JoinFirst(ids, k - 1) \o <<"-">> \o NumberString(ids[k])

\* ids.join('-')
JoinIds(ids) == JoinFirst(ids, Len(ids))

\* the three ids as they come: p1, its neighbour, the neighbour's neighbour
UnsortedIds(a, b, c) == <<a, b, c>>

\* [a, b, c].sort((a, b) => a - b)
SortIds(a, b, c) ==
  LET lo == Min(a, Min(b, c))
      hi == Max(a, Max(b, c))
  IN  <<lo, a + b + c - lo - hi, hi>>

\* Set.prototype.add
SetAdd(set, e) ==
  IF \E k \in 1..Len(set) : set[k] = e THEN set ELSE Append(set, e)

\* the neighbour b entered for a: connectionMap.get(a).add(b), the Set made first
\* where a has none
AddNeighbor(map, a, b) ==
  IF a \in DOMAIN map THEN [map EXCEPT ![a] = SetAdd(@, b)]
  ELSE [id \in DOMAIN map \cup {a} |-> IF id = a THEN <<b>> ELSE map[id]]

\* connectionMap after the first k connections
RECURSIVE ConnectionMap(_, _)
ConnectionMap(connections, k) ==
  IF k = 0 THEN <<>>
  ELSE AddNeighbor(AddNeighbor(ConnectionMap(connections, k - 1),
                               connections[k].p1, connections[k].p2),
                   connections[k].p2, connections[k].p1)

\* the body of the innermost loop for p1, its neighbour n2Id and n3Id
RecordTriangle(acc, map, p1, n2Id, n3Id) ==
  IF n3Id = p1 THEN acc
  ELSE IF \E k \in 1..Len(map[p1]) : map[p1][k] = n3Id
  THEN LET ids == SortIds(p1, n2Id, n3Id)
           key == JoinIds(ids)
       IN  IF \E k \in 1..Len(acc.seen) : acc.seen[k] = key THEN acc
           ELSE [seen |-> Append(acc.seen, key),
                 triangles |-> Append(acc.triangles,
                                      [p1 |-> ids[1], p2 |-> ids[2], p3 |-> ids[3],
                                       key |-> key])]
  ELSE acc

\* "for (const n3Id of neighbors2)" from its k-th element; each turn is evaluated
\* before the next
RECURSIVE ThirdsFrom(_, _, _, _, _)
ThirdsFrom(acc, map, p1, n2Id, k) ==
  IF k > Len(map[n2Id]) THEN acc
  ELSE LET recorded == RecordTriangle(acc, map, p1, n2Id, map[n2Id][k])
       IN  IF Len(recorded.seen) >= 0
           THEN ThirdsFrom(recorded, map, p1, n2Id, k + 1)
           ELSE recorded

\* "for (const n2Id of neighbors1)" from its k-th element
RECURSIVE SecondsFrom(_, _, _, _)
SecondsFrom(acc, map, p1, k) ==
  IF k > Len(map[p1]) THEN acc
  ELSE LET found == IF map[p1][k] \in DOMAIN map
                    THEN ThirdsFrom(acc, map, p1, map[p1][k], 1) ELSE acc
       IN  IF Len(found.seen) >= 0 THEN SecondsFrom(found, map, p1, k + 1) ELSE found

\* the loop over the points from the i-th
RECURSIVE FirstsFrom(_, _, _, _)
FirstsFrom(acc, map, pts, i) ==
  IF i > Len(pts) THEN acc
  ELSE LET found == IF pts[i].id \in DOMAIN map
                    THEN SecondsFrom(acc, map, pts[i].id, 1) ELSE acc
       IN  IF Len(found.seen) >= 0 THEN FirstsFrom(found, map, pts, i + 1) ELSE found

\* findTriangles(connections) with pointsRef.current = pts
findTriangles(connections, pts) ==
  FirstsFrom([seen |-> <<>>, triangles |-> <<>>],
             ConnectionMap(connections, Len(connections)), pts, 1).triangles

----------------------------------------------------------------------------
(* findTriangles applied to the connections that findConnections accepts    *)
(* for free particle positions: one call per behaviour.                     *)

\* the id of the first particle: as mounted, and after earlier resizes
FirstIds == {0, 9}

\* the particles pts with the ids first, first + 1, ...
WithIdsFrom(pts, first) == [k \in 1..Len(pts) |-> [pts[k] EXCEPT !.id = first + k - 1]]

\* draw: findTriangles(findConnections())
CallFindTriangles(pts, maxDist) ==
  /\ fn = "none"
  /\ fn' = "findTriangles"
  /\ args' = <<pts, findConnections(pts, maxDist).connections>>
  /\ res' = findTriangles(args'[2], args'[1])
  /\ UNCHANGED engineVars

TrianglesNext ==
  fn = "none" /\ \E pts \in ParticleArrays, first \in FirstIds,
                    maxDist \in ConnectionRadii :
                   CallFindTriangles(WithIdsFrom(pts, first), maxDist)

SpecTriangles == ConnectionsInit /\ [][TrianglesNext]_vars

----------------------------------------------------------------------------
(* floating/delaunay.ts.  A coordinate is an integer number of quarter      *)
(* pixels, and the comparisons of circumcircleContains are made exactly, on *)
(* integers of three limbs, where the source makes them on doubles.         *)

\* units per pixel of the triangulator's coordinates
QP == 4

\* the 100 pixels added around the bounding box of the points
SuperMargin == 100 * QP

\* the base of the limbs
Limb == 65536

\* the integer hi * Limb^2 + mid * Limb + lo as <<hi, mid, lo>> with mid and lo
\* in 0..Limb-1
Wide(hi, mid, lo) ==
  LET m == mid + (lo \div Limb)
  IN  <<hi + (m \div Limb), m % Limb, lo % Limb>>

WideOf(n) == Wide(0, 0, n)

\* w * s for |s| < 2^14
WideTimes(w, s) == Wide(w[1] * s, w[2] * s, w[3] * s)

WidePlus(v, w) == Wide(v[1] + w[1], v[2] + w[2], v[3] + w[3])

WideMinus(v, w) == Wide(v[1] - w[1], v[2] - w[2], v[3] - w[3])

WideSign(w) ==
  IF w[1] < 0 THEN -1 ELSE IF w[1] = 0 /\ w[2] = 0 /\ w[3] = 0 THEN 0 ELSE 1

\* aa * s + bb * t + cc * u, the numerator of ux or uy
WideSum3(aa, s, bb, t, cc, u) ==
  WidePlus(WidePlus(WideTimes(WideOf(aa), s), WideTimes(WideOf(bb), t)),
           WideTimes(WideOf(cc), u))

\* the test of the triangle in place of its circle: p is in the closed triangle a b c
triangleContains(ax, ay, bx, by, cx, cy, px, py) ==
  LET ab == (bx - ax) * (py - ay) - (by - ay) * (px - ax)
      bc == (cx - bx) * (py - by) - (cy - by) * (px - bx)
      ca == (ax - cx) * (py - cy) - (ay - cy) * (px - cx)
  IN  (ab >= 0 /\ bc >= 0 /\ ca >= 0) \/ (ab <= 0 /\ bc <= 0 /\ ca <= 0)

\* distSq < radiusSq, with ux = nx / d and uy = ny / d, is
\* (pp - aa) < 2 * ((px - ax) * ux + (py - ay) * uy); both sides are multiplied by d
circumcircleContains(ax, ay, bx, by, cx, cy, px, py) ==
  LET d == 2 * (ax * (by - cy) + bx * (cy - ay) + cx * (ay - by))
      aa == ax * ax + ay * ay
      bb == bx * bx + by * by
      cc == cx * cx + cy * cy
      pp == px * px + py * py
      nx == WideSum3(aa, by - cy, bb, cy - ay, cc, ay - by)
      ny == WideSum3(aa, cx - bx, bb, ax - cx, cc, bx - ax)
      left == WideTimes(WideSum3(ax, by - cy, bx, cy - ay, cx, ay - by), 2)
      lhs == WidePlus(WideTimes(WideTimes(left, px), px),
                      WideMinus(WideTimes(WideTimes(left, py), py),
                                WidePlus(WideTimes(WideTimes(left, ax), ax),
                                         WideTimes(WideTimes(left, ay), ay))))
      rhs == WideTimes(WidePlus(WideTimes(nx, px - ax), WideTimes(ny, py - ay)), 2)
  IN  IF d = 0 THEN FALSE
      ELSE Sign(d) * WideSign(WideMinus(lhs, rhs)) < 0

edgeEquals(e1, e2) ==
  (e1.p1 = e2.p1 /\ e1.p2 = e2.p2) \/ (e1.p1 = e2.p2 /\ e1.p2 = e2.p1)

\* the least and the greatest of a non-empty set of integers
MinOf(S) == CHOOSE m \in S : \A n \in S : m <= n

MaxOf(S) == CHOOSE m \in S : \A n \in S : m >= n

\* superPoints, from the bounding box of the points; the sums minX + maxX and
\* minY + maxY are even for the inputs used, so midX and midY are integers
superPoints(pts) ==
  LET xs == {pts[k].x : k \in 1..Len(pts)}
      ys == {pts[k].y : k \in 1..Len(pts)}
      minX == MinOf(xs) - SuperMargin
      minY == MinOf(ys) - SuperMargin
      maxX == MaxOf(xs) + SuperMargin
      maxY == MaxOf(ys) + SuperMargin
      deltaMax == Max(maxX - minX, maxY - minY)
      midX == (minX + maxX) \div 2
      midY == (minY + maxY) \div 2
  IN  <<[id |-> -1, x |-> midX - 2 * deltaMax, y |-> midY - deltaMax],
        [id |-> -2, x |-> midX, y |-> midY + 2 * deltaMax],
        [id |-> -3, x |-> midX + 2 * deltaMax, y |-> midY - deltaMax]>>

\* points.find(p => p.id === id): the first point of that id
getPoint(pts, sp, id) ==
  IF id < 0 THEN sp[-id]
  ELSE pts[MinOf({k \in 1..Len(pts) : pts[k].id = id})]

triEdges(tri) ==
  <<[p1 |-> tri.p1, p2 |-> tri.p2], [p1 |-> tri.p2, p2 |-> tri.p3],
    [p1 |-> tri.p3, p2 |-> tri.p1]>>

\* the indices, in triangles, of the triangles whose circumcircle contains point
badTriangles(pts, sp, triangles, point) ==
  {t \in 1..Len(triangles) :
     LET p1 == getPoint(pts, sp, triangles[t].p1)
         p2 == getPoint(pts, sp, triangles[t].p2)
         p3 == getPoint(pts, sp, triangles[t].p3)
     IN  circumcircleContains(p1.x, p1.y, p2.x, p2.y, p3.x, p3.y, point.x, point.y)}

\* no edge is taken for shared
neverShared(triangles, bad, t, edge) == FALSE

\* is the edge one of a bad triangle other than the one at index t
sharedEdge(triangles, bad, t, edge) ==
  \E o \in bad \ {t} : \E k \in 1..3 : edgeEquals(triEdges(triangles[o])[k], edge)

RECURSIVE polygonFrom(_, _, _, _)
\* the edges of the bad triangles that no other bad triangle has, in the order of
\* the loops: triangles by index from t, the three edges of each from k
polygonFrom(triangles, bad, t, k) ==
  IF t > Len(triangles) THEN <<>>
  ELSE IF t \notin bad \/ k > 3 THEN polygonFrom(triangles, bad, t + 1, 1)
  ELSE LET edge == triEdges(triangles[t])[k]
           rest == polygonFrom(triangles, bad, t, k + 1)
       IN  IF sharedEdge(triangles, bad, t, edge) THEN rest ELSE <<edge>> \o rest

\* keep the triangles of the sequence whose index is not in the set
withoutIndices(triangles, bad) ==
  LET keep == SelectSeq([t \in 1..Len(triangles) |-> t], LAMBDA t : t \notin bad)
  IN  [k \in 1..Len(keep) |-> triangles[keep[k]]]

\* the body of the loop over the points: one point inserted
insertPoint(pts, sp, triangles, point) ==
  LET bad == badTriangles(pts, sp, triangles, point)
      polygon == polygonFrom(triangles, bad, 1, 1)
  IN  withoutIndices(triangles, bad)
        \o [k \in 1..Len(polygon) |->
              [p1 |-> polygon[k].p1, p2 |-> polygon[k].p2, p3 |-> point.id]]

RECURSIVE insertFrom(_, _, _, _)
insertFrom(pts, sp, triangles, k) ==
  IF k > Len(pts) THEN triangles
  ELSE insertFrom(pts, sp, insertPoint(pts, sp, triangles, pts[k]), k + 1)

\* the indices of the triangles that share an edge with the one at index i, ascending
neighborsOf(triangles, i) ==
  SelectSeq([j \in 1..Len(triangles) |-> j],
            LAMBDA j : j # i /\ \E k \in 1..3, l \in 1..3 :
                     edgeEquals(triEdges(triangles[i])[k], triEdges(triangles[j])[l]))

\* triangulate(points); the centroid of a triangle, which triangulate never reads,
\* is left out, and neighbors holds indices from 1
triangulate(pts) ==
  IF Len(pts) < 3 THEN <<>>
  ELSE LET sp == superPoints(pts)
           all == insertFrom(pts, sp, <<[p1 |-> -1, p2 |-> -2, p3 |-> -3]>>, 1)
           real == SelectSeq(all, LAMBDA t : t.p1 >= 0 /\ t.p2 >= 0 /\ t.p3 >= 0)
       IN  [i \in 1..Len(real) |->
              [p1 |-> real[i].p1, p2 |-> real[i].p2, p3 |-> real[i].p3,
               neighbors |-> neighborsOf(real, i)]]

----------------------------------------------------------------------------
(* triangulate applied to free point arrays: one call per behaviour, the    *)
(* engine left unmounted.                                                   *)

\* most points of a free array given to triangulate
MaxPoints == 4

\* positions in pixels: the corners of a 400 by 200 rectangle, the middle of its
\* upper side, and a point 10 pixels above the middle of its lower side
DelaunayPositions ==
  {<<0, 0>>, <<400, 0>>, <<200, 10>>, <<200, 200>>, <<0, 200>>, <<400, 200>>}

\* the arrays of at most MaxPoints points at distinct positions, ids from 0 in the
\* order of the array
PointArrays ==
  UNION {{[k \in 1..n |-> [id |-> k - 1, x |-> s[k][1] * QP, y |-> s[k][2] * QP]] :
            s \in {t \in [1..n -> DelaunayPositions] :
                     \A i \in 1..n, j \in 1..n : i # j => t[i] # t[j]}} :
         n \in 0..MaxPoints}

\* the corners of the unit square, ids 0 to 3, and its centre, id 4
UnitSquare ==
  <<[id |-> 0, x |-> 0, y |-> 0], [id |-> 1, x |-> QP, y |-> 0],
    [id |-> 2, x |-> QP, y |-> QP], [id |-> 3, x |-> 0, y |-> QP],
    [id |-> 4, x |-> QP \div 2, y |-> QP \div 2]>>

\* the five points of UnitSquare in every order
UnitSquareArrays ==
  {[k \in 1..5 |-> UnitSquare[s[k]]] :
     s \in {t \in [1..5 -> 1..5] : \A i \in 1..5, j \in 1..5 : i # j => t[i] # t[j]}}

DelaunayInit == Init /\ engine = "field" /\ rng = 0

\* triangulate(pts)
CallTriangulate(pts) ==
  /\ fn = "none"
  /\ fn' = "triangulate"
  /\ args' = <<pts>>
  /\ res' = triangulate(pts)
  /\ UNCHANGED engineVars

DelaunayNext ==
  fn = "none" /\ \E pts \in PointArrays \cup UnitSquareArrays : CallTriangulate(pts)

SpecDelaunay == DelaunayInit /\ [][DelaunayNext]_vars

----------------------------------------------------------------------------
(* The boid hook from a flock of two: the canvas holds exactly two boids,   *)
(* close together, one frame after the mount; the frames that follow.       *)

\* animate() calls of the pair, the one of the mount included
MaxPairTicks == 2

\* canvas of the pair: getTargetBoidCount gives 2
PairCanvas == <<200, 100>>

\* where the second boid is, seen from the first at (100, 50): along the axes and
\* the diagonals, from less than one step away to just within SEPARATION_DISTANCE
PairOffsets ==
  {<<s * d, t * d>> : s \in {-1, 0, 1}, t \in {-1, 0, 1}, d \in {4, 6, 10, 19}}
    \ {<<0, 0>>}

\* the headings of [0, 2 pi), 15 degrees apart
PairHeadings == {k * (TwoPi \div 24) : k \in 0..23}

\* a boid that has lived one frame without a turn
PairBoid(id, x, y, angle) ==
  [id |-> id, x |-> x, y |-> y, angle |-> angle, turningHistory |-> <<0>>,
   currentSpeed |-> MAX_SPEED, deltas |-> <<0>>]

\* the first boid at (100, 50), the second at the offset; each heads straight at the
\* other, or along a heading of the grid
Pairs ==
  {<<PairBoid(0, 100, 50, a0), PairBoid(1, 100 + o[1], 50 + o[2], a1)>> :
     o \in {o \in PairOffsets : o[1] * o[1] + o[2] * o[2] < SEPARATION_DISTANCE},
     a0 \in PairHeadings, a1 \in PairHeadings}

PairInit ==
  /\ engine = "boids"
  /\ mounted = "yes"
  /\ canvasW = PairCanvas[1]
  /\ canvasH = PairCanvas[2]
  /\ isPaused = FALSE
  /\ mouseActive = FALSE
  /\ mousePos = NoMouse
  /\ rng = 0
  /\ rafPending = TRUE
  /\ boids \in Pairs
  /\ nextBoidId = 2
  /\ textBounds = createTextBounds(PairCanvas[1], PairCanvas[2])
  /\ points = <<>>
  /\ nextId = 0
  /\ connectionRadius = [kind |-> "finite", v |-> CONNECTION_RADIUS]
  /\ ticks = 1
  /\ stepCount = 1
  /\ drawCount = 1
  /\ events = 0
  /\ fn = "none"
  /\ args = <<>>
  /\ res = <<>>
  /\ isFadedOut = FALSE
  /\ pauseTimers = 0

PairNext == BoidsAnimateUpTo(MaxPairTicks)

SpecPair == PairInit /\ [][PairNext]_vars

----------------------------------------------------------------------------
(* The boid hook from a flock of two on the canvas of the pair, one frame   *)
(* after the mount; the container is then resized, and frames follow.       *)

\* the sizes the container takes: each has a target of one boid or more, and the
\* first is less than half as wide as the canvas of the pair
ResizeSizes == {<<90, 200>>, <<120, 120>>, <<200, 100>>}

\* where the boid updated first is when the container is resized
ResizePositions == {<<190, 50>>, <<100, 50>>, <<30, 90>>}

ResizeHeadings == {0, Pi \div 2, Pi, 3 * (Pi \div 2)}

ResizeFlocks ==
  {<<PairBoid(0, p[1], p[2], a0), PairBoid(1, 60, 40, a1)>> :
     p \in ResizePositions, a0 \in ResizeHeadings, a1 \in ResizeHeadings}

ResizeInit ==
  /\ engine = "boids"
  /\ mounted = "yes"
  /\ canvasW = PairCanvas[1]
  /\ canvasH = PairCanvas[2]
  /\ isPaused = FALSE
  /\ mouseActive = FALSE
  /\ mousePos = NoMouse
  /\ rng = 0
  /\ rafPending = TRUE
  /\ boids \in ResizeFlocks
  /\ nextBoidId = 2
  /\ textBounds = createTextBounds(PairCanvas[1], PairCanvas[2])
  /\ points = <<>>
  /\ nextId = 0
  /\ connectionRadius = [kind |-> "finite", v |-> CONNECTION_RADIUS]
  /\ ticks = 1
  /\ stepCount = 1
  /\ drawCount = 1
  /\ events = 0
  /\ fn = "none"
  /\ args = <<>>
  /\ res = <<>>
  /\ isFadedOut = FALSE
  /\ pauseTimers = 0

ResizeNext ==
  \/ \E size \in ResizeSizes : BoidsResize(size)
  \/ \E p \in BOOLEAN : SetPaused(p)
  \/ BoidsAnimateUpTo(MaxPairTicks + 1)

SpecResize == ResizeInit /\ [][ResizeNext]_vars

----------------------------------------------------------------------------
(* The variant of useFloatingPoints with pointer forces and the distortion  *)
(* offset (tx, ty): updatePoints.  A double that is NaN or an infinity is    *)
(* not a number of the fixed-point model: xyFinite tells whether x and y    *)
(* are finite, tFinite whether tx and ty are; the integers of a pair that    *)
(* is not finite mean nothing.  A comparison with NaN is false.             *)

FIELD_MOUSE_ATTRACTION_STRENGTH == 2000

FIELD_MOUSE_ATTRACTION_RADIUS == 550000

MOUSE_ATTRACTION_MIN_RADIUS == 0

DISTORTION_STRENGTH == 5500

DISTORTION_RADIUS == 150000

DISTORTION_MAX_RADIUS == 100000

MOUSE_INTERACTION_STRENGTH == 300

MOUSE_INTERACTION_RADIUS == 200000

\* Math.sqrt(a * a + b * b) for operands of any size
RECURSIVE Hypot(_, _)
Hypot(a, b) ==
  IF Abs(a) < 30000 /\ Abs(b) < 30000 THEN Sqrt(a * a + b * b)
  ELSE 10 * Hypot(Abs(a) \div 10, Abs(b) \div 10)

\* a * b / c for b >= 0 and c > 0, without the product a * b
MulDiv(a, b, c) == Sign(a) * ((Abs(a) \div c) * b + RoundDiv((Abs(a) % c) * b, c))

\* a / m in thousandths, for |a| <= m
RECURSIVE Unit1000(_, _)
Unit1000(a, m) ==
  IF m >= 1000000 THEN Unit1000(Sign(a) * (Abs(a) \div 10), m \div 10)
  ELSE RoundDiv(a * 1000, m)

\* (1 - dist / radius) in thousandths, for dist < radius
Falloff(dist, radius) == RoundDiv((radius - dist) * 1000, radius)

\* the pointer in the units of the particles
PointerAt(mouse) == [x |-> mouse[1] * FP, y |-> mouse[2] * FP]

\* the distance from the pointer measured from where the particle is drawn
DisplacedPointerDistance(p, mouse) ==
  Distance(PointerAt(mouse).x - p.x - p.tx, PointerAt(mouse).y - p.y - p.ty)

\* distance of the particle p from the pointer; only read when p.xyFinite
PointerDistance(p, mouse) ==
  Distance(PointerAt(mouse).x - p.x, PointerAt(mouse).y - p.y)

\* clamp(Math.pow(1 - dist / REPULSION_RADIUS, 2) * REPULSION_STRENGTH, 0, 1)
RicherRepulsionForce(dist) ==
  Min(1000, Max(0, RoundDiv(RoundDiv(Falloff(dist, REPULSION_RADIUS)
                                       * Falloff(dist, REPULSION_RADIUS), 1000)
                              * REPULSION_STRENGTH, 1000)))

\* the repulsion of the pair (i, j) of the richer variant, on the positions
RicherRepelPair(ps, i, j, dx, dy, dist) ==
  IF ps[i].xyFinite /\ ps[j].xyFinite /\ dist < REPULSION_RADIUS /\ dist > 0
  THEN LET force == RicherRepulsionForce(dist)
           fx == MulDiv(dx, force, dist)
           fy == MulDiv(dy, force, dist)
       IN  [ps EXCEPT ![i].x = @ - fx, ![i].y = @ - fy,
                      ![j].x = @ + fx, ![j].y = @ + fy]
  ELSE ps

\* "attraction when hovered": the particle i is nudged along (dx, dy) / dist, the
\* direction to j as it was before the repulsion; with dist = 0 the quotient is 0 / 0
InteractPair(ps, i, j, dx, dy, dist, active, mouse) ==
  IF active /\ mouse # NoMouse /\ ps[i].xyFinite /\ ps[j].xyFinite
  THEN IF /\ PointerDistance(ps[i], mouse) < MOUSE_INTERACTION_RADIUS
          /\ PointerDistance(ps[j], mouse) < MOUSE_INTERACTION_RADIUS
       THEN IF dist = 0
            THEN [ps EXCEPT ![i].xyFinite = FALSE]
            ELSE LET forceInteraction ==
                       RoundDiv(MOUSE_INTERACTION_STRENGTH
                                  * (MOUSE_INTERACTION_RADIUS
                                       - PointerDistance(ps[j], mouse)),
                                MOUSE_INTERACTION_RADIUS)
                 IN  [ps EXCEPT ![i].x = @ + MulDiv(dx, forceInteraction, dist),
                                ![i].y = @ + MulDiv(dy, forceInteraction, dist)]
       ELSE ps
  ELSE ps

\* the body of the two nested loops for the pair (i, j)
RicherPair(ps, i, j, active, mouse) ==
  LET dx == ps[j].x - ps[i].x
      dy == ps[j].y - ps[i].y
      dist == Distance(dx, dy)
  IN  InteractPair(RicherRepelPair(ps, i, j, dx, dy, dist),
                   i, j, dx, dy, dist, active, mouse)

RECURSIVE RicherPairsFrom(_, _, _, _, _)
RicherPairsFrom(ps, i, j, active, mouse) ==
  IF i > Len(ps) THEN ps
  ELSE IF j > Len(ps) THEN RicherPairsFrom(ps, i + 1, i + 2, active, mouse)
  ELSE RicherPairsFrom(RicherPair(ps, i, j, active, mouse), i, j + 1, active, mouse)

\* "Mouse attraction": a bump between the two radii, a nudge of the position
FieldMouseAttraction(p, mouse, distMouse) ==
  IF /\ distMouse < FIELD_MOUSE_ATTRACTION_RADIUS
     /\ distMouse > MOUSE_ATTRACTION_MIN_RADIUS
  THEN LET span == FIELD_MOUSE_ATTRACTION_RADIUS - MOUSE_ATTRACTION_MIN_RADIUS
           inner == RoundDiv((distMouse - MOUSE_ATTRACTION_MIN_RADIUS) * 1000, span)
           outer == RoundDiv((FIELD_MOUSE_ATTRACTION_RADIUS - distMouse) * 1000, span)
           forceMouse == RoundDiv(RoundDiv(4 * inner * outer, 1000)
                                    * FIELD_MOUSE_ATTRACTION_STRENGTH, 1000)
           scaled == RoundDiv(forceMouse
                                * Falloff(distMouse, FIELD_MOUSE_ATTRACTION_RADIUS), 1000)
       IN  [p EXCEPT !.x = @ + MulDiv(PointerAt(mouse).x - p.x, scaled, distMouse),
                     !.y = @ + MulDiv(PointerAt(mouse).y - p.y, scaled, distMouse)]
  ELSE p

\* the offset brought back to DISTORTION_MAX_RADIUS * (1 - distMouse / DISTORTION_RADIUS)
\* when longer than DISTORTION_MAX_RADIUS; ty is scaled by the length of the new
\* tx and the old ty
ClampOffset(p, distMouse) ==
  IF Hypot(p.tx, p.ty) > DISTORTION_MAX_RADIUS
  THEN LET reach == RoundDiv(DISTORTION_MAX_RADIUS
                               * Falloff(distMouse, DISTORTION_RADIUS), 1000)
           tx == RoundDiv(Unit1000(p.tx, Hypot(p.tx, p.ty)) * reach, 1000)
           ty == IF p.ty = 0 THEN 0
                 ELSE RoundDiv(Unit1000(p.ty, Hypot(tx, p.ty)) * reach, 1000)
       IN  [p EXCEPT !.tx = tx, !.ty = ty]
  ELSE p

\* "Distortion": the offset is pulled to the pointer along (ddxMouse, ddyMouse) /
\* distMouse; with distMouse = 0 the quotients are 0 / 0 or infinite
Distortion(p, mouse, distMouse) ==
  IF distMouse < DISTORTION_RADIUS
  THEN IF distMouse = 0 \/ ~p.tFinite
       THEN [p EXCEPT !.tFinite = FALSE]
       ELSE LET ddxMouse == PointerAt(mouse).x - p.x - p.tx
                ddyMouse == PointerAt(mouse).y - p.y - p.ty
                forceDistortion ==
                  RoundDiv(RoundDiv(Falloff(distMouse, DISTORTION_RADIUS)
                                      * Falloff(distMouse, DISTORTION_RADIUS), 1000)
                             * DISTORTION_STRENGTH, 1000)
            IN  ClampOffset([p EXCEPT
                               !.tx = @ + MulDiv(ddxMouse, forceDistortion, distMouse),
                               !.ty = @ + MulDiv(ddyMouse, forceDistortion, distMouse)],
                            distMouse)
  ELSE p

\* point.tx *= 0.9; point.ty *= 0.9
DecayOffset(p) == [p EXCEPT !.tx = RoundDiv(@ * 9, 10), !.ty = RoundDiv(@ * 9, 10)]

\* the block of points.forEach under "if (isMouseActiveRef.current &&
\* mousePositionRef.current)"; at a position that is NaN every comparison is false
PointerBlock(p, active, mouse) ==
  IF active /\ mouse # NoMouse
  THEN IF p.xyFinite
       THEN LET distMouse == PointerDistance(p, mouse)
            IN  DecayOffset(Distortion(FieldMouseAttraction(p, mouse, distMouse),
                                       mouse, distMouse))
       ELSE DecayOffset(p)
  ELSE p

\* the body of points.forEach of the richer variant: wander, cap, damping,
\* integration and walls as StepPoint, then the pointer block
RicherStepPoint(p, s, w, h, active, mouse) ==
  LET stepped == StepPoint(p, s, w, h)
      moved == IF p.xyFinite THEN stepped
               ELSE [stepped EXCEPT !.x = p.x, !.y = p.y,
                                    !.vx = stepped.x - p.x, !.vy = stepped.y - p.y]
  IN  PointerBlock(moved, active, mouse)

RECURSIVE RicherStepPointsFrom(_, _, _, _, _, _, _)
RicherStepPointsFrom(ps, i, s, w, h, active, mouse) ==
  IF i > Len(ps) THEN [points |-> ps, rng |-> s]
  ELSE RicherStepPointsFrom(
         [ps EXCEPT ![i] = RicherStepPoint(ps[i], s, w, h, active, mouse)],
         i + 1, NextRng(s), w, h, active, mouse)

updatePointsRicher(st, paused, active, mouse) ==
  IF paused THEN st
  ELSE LET stepped == RicherStepPointsFrom(
                        RicherPairsFrom(st.points, 1, 2, active, mouse),
                        1, st.rng, st.w, st.h, active, mouse)
       IN  [st EXCEPT !.points = stepped.points, !.rng = stepped.rng,
                      !.steps = st.steps + 1]

----------------------------------------------------------------------------
(* The particle hooks from placed particles, one frame after the mount, and *)
(* the frames that follow: useFloatingPoints of FloatingPointsSimulation.ts *)
(* (engine "field") with one particle on a canvas whose target is one or    *)
(* two on a canvas whose target is two, and the variant with the pointer    *)
(* forces (engine "distortion") with the pointer coming and going.          *)

MaxPlacedTicks == 3

\* velocities of a placed particle, in 1/1000 pixel per frame: at rest, and moving
PlacedVelocities == {<<0, 0>>, <<790, 0>>, <<-400, -400>>}

\* wander angles of a placed particle
PlacedWanderAngles == {0, Pi \div 4, Pi, (3 * Pi) \div 2}

\* positions of the second placed particle, in pixels; the first is at (25, 25)
PlacedSeconds == {<<35, 25>>, <<25, 60>>}

PlacedParticle(id, pos, v, wanderAngle) ==
  [id |-> id, x |-> pos[1] * FP, y |-> pos[2] * FP,
   baseX |-> pos[1] * FP, baseY |-> pos[2] * FP, vx |-> v[1], vy |-> v[2],
   wanderAngle |-> wanderAngle, wanderSpeed |-> 1000]

\* one particle, or two within REPULSION_RADIUS of one another
PlacedParticles ==
  {<<PlacedParticle(0, <<25, 25>>, v, a)>> :
     v \in PlacedVelocities, a \in PlacedWanderAngles}
  \cup
  {<<PlacedParticle(0, <<25, 25>>, v, a), PlacedParticle(1, pos, u, b)>> :
     v \in PlacedVelocities, a \in PlacedWanderAngles, pos \in PlacedSeconds,
     u \in PlacedVelocities, b \in PlacedWanderAngles}

\* the canvas whose target count is n, for n = 1 or 2
PlacedCanvas(n) == IF n = 1 THEN <<50, 50>> ELSE <<60, 60>>

\* distortion offsets of a placed particle: none, and 5 pixels long
PlacedOffsets == {<<0, 0>>, <<3000, -4000>>}

\* positions of the second particle of the richer variant: 10 pixels from the
\* first, and on it
RicherSeconds == {<<35, 25>>, <<25, 25>>}

\* pointer positions: on the place of the first particle, and 15 pixels from it
PlacedPointers == {<<25, 25>>, <<40, 25>>}

\* a Point of the richer variant
RicherParticle(id, pos, v, wanderAngle, t) ==
  [tx |-> t[1], ty |-> t[2], xyFinite |-> TRUE, tFinite |-> TRUE]
    @@ PlacedParticle(id, pos, v, wanderAngle)

\* one particle at (25, 25); one at rest a damped wander push (0.02 pixel) to the
\* left of (25, 25); two, the second at rest
RicherParticles ==
  {<<RicherParticle(0, <<25, 25>>, v, a, t)>> :
     v \in PlacedVelocities, a \in {0, Pi}, t \in PlacedOffsets}
  \cup
  {<<[RicherParticle(0, <<25, 25>>, <<0, 0>>, 0, t) EXCEPT !.x = @ - 20]>> :
     t \in PlacedOffsets}
  \cup
  {<<RicherParticle(0, <<25, 25>>, v, a, t),
     RicherParticle(1, pos, <<0, 0>>, 0, <<0, 0>>)>> :
     v \in PlacedVelocities, a \in {0, Pi}, t \in PlacedOffsets, pos \in RicherSeconds}

PlacedInit ==
  /\ \/ engine = "field" /\ points \in PlacedParticles
     \/ engine = "distortion" /\ points \in RicherParticles
  /\ mounted = "yes"
  /\ canvasW = PlacedCanvas(Len(points))[1]
  /\ canvasH = PlacedCanvas(Len(points))[2]
  /\ isPaused = FALSE
  /\ mouseActive = FALSE
  /\ mousePos = NoMouse
  /\ rng \in 0..(RngMod - 1)
  /\ rafPending = TRUE
  /\ boids = <<>>
  /\ nextBoidId = 0
  /\ textBounds = NoTextBounds
  /\ nextId = Len(points)
  /\ connectionRadius = ConnectionRadiusFor(canvasW, canvasH)
  /\ ticks = 1
  /\ stepCount = WARMUP_STEPS + 1
  /\ drawCount = 2
  /\ events = 0
  /\ fn = "none"
  /\ args = <<>>
  /\ res = <<>>
  /\ isFadedOut = FALSE
  /\ pauseTimers = 0

\* animate of the richer variant
RicherAnimate ==
  /\ engine = "distortion"
  /\ mounted = "yes"
  /\ rafPending
  /\ ticks < MaxPlacedTicks
  /\ SetFieldState(updatePointsRicher(FieldState, isPaused, mouseActive, mousePos))
  /\ rafPending' = TRUE
  /\ ticks' = ticks + 1
  /\ drawCount' = drawCount + 1
  /\ UNCHANGED <<engine, mounted, isPaused, mouseActive, mousePos, events,
                 fn, args, res, isFadedOut, pauseTimers>>

PlacedNext ==
  \/ FieldAnimate
  \/ RicherAnimate
  \/ \E p \in BOOLEAN : engine = "distortion" /\ SetPaused(p)
  \/ \E pos \in PlacedPointers : engine = "distortion" /\ MouseMove(pos)
  \/ engine = "distortion" /\ MouseLeave

SpecPlaced == PlacedInit /\ [][PlacedNext]_vars

----------------------------------------------------------------------------
(* Two runs of the variant with the distortion offset, side by side: the    *)
(* same particles but for the offsets (tx, ty) of the first, the same draws *)
(* of Math.random, the same pointer, pauses and resizes.  points is the     *)
(* particle array of the first run, res that of the second.                 *)

\* a particle array of the second run: that of the first with another offset on its
\* first particle, of 0, of 5 pixels, or longer than DISTORTION_MAX_RADIUS
TwinOffsets == PlacedOffsets \cup {<<150000, 20000>>}

TwinsOf(ps) ==
  {[ps EXCEPT ![1].tx = t[1], ![1].ty = t[2]] :
     t \in TwinOffsets \ {<<ps[1].tx, ps[1].ty>>}}

\* createParticle of the variant: tx: 0, ty: 0 on top of the fields of the plain one
WithOffsets(ps) ==
  [i \in 1..Len(ps) |->
     IF "tx" \in DOMAIN ps[i] THEN ps[i]
     ELSE [tx |-> 0, ty |-> 0, xyFinite |-> TRUE, tFinite |-> TRUE] @@ ps[i]]

TwinInit ==
  /\ engine = "distortion"
  /\ points \in RicherParticles
  /\ res \in TwinsOf(points)
  /\ mounted = "yes"
  /\ canvasW = PlacedCanvas(Len(points))[1]
  /\ canvasH = PlacedCanvas(Len(points))[2]
  /\ isPaused = FALSE
  /\ mouseActive = FALSE
  /\ mousePos = NoMouse
  /\ rng \in {0, 3}
  /\ rafPending = TRUE
  /\ boids = <<>>
  /\ nextBoidId = 0
  /\ textBounds = NoTextBounds
  /\ nextId = Len(points)
  /\ connectionRadius = ConnectionRadiusFor(canvasW, canvasH)
  /\ ticks = 1
  /\ stepCount = WARMUP_STEPS + 1
  /\ drawCount = 2
  /\ events = 0
  /\ fn = "twin"
  /\ args = <<>>
  /\ isFadedOut = FALSE
  /\ pauseTimers = 0

\* animate, in both runs
TwinAnimate ==
  /\ engine = "distortion"
  /\ mounted = "yes"
  /\ rafPending
  /\ ticks < MaxPlacedTicks
  /\ SetFieldState(updatePointsRicher(FieldState, isPaused, mouseActive, mousePos))
  /\ res' = updatePointsRicher([FieldState EXCEPT !.points = res],
                               isPaused, mouseActive, mousePos).points
  /\ rafPending' = TRUE
  /\ ticks' = ticks + 1
  /\ drawCount' = drawCount + 1
  /\ UNCHANGED <<engine, mounted, isPaused, mouseActive, mousePos, events, fn, args,
                 isFadedOut, pauseTimers>>

\* handleResize, in both runs
TwinResize(size) ==
  /\ engine = "distortion"
  /\ mounted = "yes"
  /\ events < MaxEvents
  /\ <<canvasW, canvasH>> # size
  /\ LET first == resizeCanvasField(FieldState, size[1], size[2])
         second == resizeCanvasField([FieldState EXCEPT !.points = res],
                                     size[1], size[2])
     IN  /\ SetFieldState([first EXCEPT !.points = WithOffsets(first.points)])
         /\ res' = WithOffsets(second.points)
  /\ events' = events + 1
  /\ UNCHANGED <<engine, mounted, isPaused, mouseActive, mousePos, rafPending,
                 ticks, drawCount, fn, args, isFadedOut, pauseTimers>>

TwinNext ==
  \/ TwinAnimate
  \/ \E n \in {1, 2} : TwinResize(PlacedCanvas(n))
  \/ \E p \in BOOLEAN : SetPaused(p)
  \/ \E pos \in PlacedPointers : MouseMove(pos)
  \/ MouseLeave

SpecTwin == TwinInit /\ [][TwinNext]_vars

----------------------------------------------------------------------------
(* Properties of the engines and of the helpers.                            *)

\* every boid of bs lies on the canvas of w by h
BoidsInside(bs, w, h) ==
  \A i \in 1..Len(bs) :
    0 <= bs[i].x /\ bs[i].x < w /\ 0 <= bs[i].y /\ bs[i].y < h

\* C1: after every completed update step of the boid engine (the state that is
\* drawn), every boid satisfies 0 <= x < width and 0 <= y < height.
C1_BoidsStayOnCanvas ==
  [][(engine = "boids" /\ stepCount' # stepCount)
       => BoidsInside(boids', canvasW', canvasH')]_vars

\* the ids of the entities es, in the order of the array
Ids(es) == [i \in 1..Len(es) |-> es[i].id]

\* a reconciliation from the array before to the array after, for the target
\* count: the count is the target, and either exactly target - Len(before)
\* entities were pushed behind the ones there were, each drawing one id from the
\* counter, or exactly Len(before) - target were cut off the tail
ReconciledExactly(before, after, target, counterBefore, counterAfter) ==
  /\ target >= 0
  /\ Len(after) = target
  /\ IF Len(before) <= target
     THEN /\ SubSeq(Ids(after), 1, Len(before)) = Ids(before)
          /\ counterAfter - counterBefore = target - Len(before)
     ELSE /\ Ids(after) = SubSeq(Ids(before), 1, target)
          /\ counterAfter = counterBefore

\* a step of the mounted boid hook in which adjustBoidCount runs: a non-paused
\* update, or a resize of a flock that is not empty
BoidsReconcile ==
  /\ engine = "boids"
  /\ mounted = "yes"
  /\ \/ stepCount' # stepCount
     \/ <<canvasW', canvasH'>> # <<canvasW, canvasH>> /\ Len(boids) > 0

\* a step of the mounted particle hook in which adjustParticleCount (or, on an empty
\* field, initPoints) runs: a resize
ParticlesReconcile ==
  /\ engine = "field"
  /\ mounted = "yes"
  /\ <<canvasW', canvasH'>> # <<canvasW, canvasH>>

\* C2: in both engines one reconciliation call leaves the entity count equal to
\* the target of the current canvas size, adds or removes exactly
\* |target - current| entities, and the count is never negative.
C2_PopulationReconciled ==
  [][/\ BoidsReconcile
        => ReconciledExactly(boids, boids', getTargetBoidCount(canvasW', canvasH'),
                             nextBoidId, nextBoidId')
     /\ ParticlesReconcile
        => ReconciledExactly(points, points',
                             getTargetParticleCount(canvasW', canvasH'),
                             nextId, nextId')]_vars

\* a flock of two was cut to the one boid the smaller canvas asks for
C2_FlockCutToTarget ==
  /\ engine = "boids"
  /\ events > 0
  /\ getTargetBoidCount(canvasW, canvasH) = 1
  /\ Len(boids) = 1
  /\ nextBoidId = 2

\* no two entities of es share an id, and every id is below the counter
IdsDistinct(es, counter) ==
  /\ \A i, j \in 1..Len(es) : es[i].id = es[j].id => i = j
  /\ \A i \in 1..Len(es) : es[i].id >= 0 /\ es[i].id < counter

\* from the array before to the array after: an entity that stays keeps its id,
\* an entity that is new has an id the counter had not reached, so no id that
\* was given before, to a live or to a removed entity; the counter never goes
\* back
IdsKept(before, after, counterBefore, counterAfter) ==
  /\ counterAfter >= counterBefore
  /\ \A i \in 1..Len(after) :
       IF i <= Len(before)
       THEN after[i].id = before[i].id
       ELSE after[i].id >= counterBefore

\* C3: once initialized, in both engines no two live entities share an id, an
\* entity's id never changes, and an id is never given a second time, across
\* top-ups and tail truncations.
C3_IdsNeverReused ==
  [][/\ mounted' # "no"
        => IdsDistinct(boids', nextBoidId') /\ IdsDistinct(points', nextId')
     /\ mounted = "yes"
        => /\ IdsKept(boids, boids', nextBoidId, nextBoidId')
           /\ IdsKept(points, points', nextId, nextId')]_vars

\* a flock of two was cut to one and topped up again: the ids 0 and 2 are alive,
\* the id 1 is gone
C3_CutThenToppedUp ==
  /\ engine = "boids"
  /\ Len(boids) = 2
  /\ Ids(boids) = <<0, 2>>
  /\ nextBoidId = 3

\* C4: in a tick that starts with the pause flag set, the update leaves the
\* entity collections as they are, the draw runs and the next tick is scheduled.
C4_PausedTickFreezes ==
  [][(ticks' # ticks /\ isPaused)
       => /\ boids' = boids
          /\ points' = points
          /\ nextBoidId' = nextBoidId
          /\ nextId' = nextId
          /\ stepCount' = stepCount
          /\ drawCount' = drawCount + 1
          /\ rafPending']_vars

\* a flock that went through a paused tick: fewer update steps than ticks
C4_FlockPausedForATick ==
  /\ engine = "boids"
  /\ isPaused
  /\ Len(boids) > 0
  /\ stepCount < ticks
  /\ drawCount = ticks
  /\ rafPending

\* C5: every tick runs one update call, an update step unless paused, and one
\* draw after it; the setup of the particle hook runs WARMUP_STEPS more update
\* steps, with no draw between them, before its first draw; nothing else runs an
\* update step or a draw.
C5_OneStepPerTickAfterWarmUp ==
  [][IF engine = "field" /\ mounted = "no" /\ mounted' = "yes"
     THEN /\ ticks' = ticks + 1
          /\ stepCount' = stepCount + (IF isPaused THEN 0 ELSE WARMUP_STEPS + 1)
          /\ drawCount' = drawCount + 2
     ELSE IF ticks' # ticks
     THEN /\ ticks' = ticks + 1
          /\ stepCount' = stepCount + (IF isPaused THEN 0 ELSE 1)
          /\ drawCount' = drawCount + 1
     ELSE stepCount' = stepCount /\ drawCount' = drawCount]_vars

\* the particle hook after its setup and a further tick
C5_FieldWarmedUp ==
  /\ engine = "field"
  /\ mounted = "yes"
  /\ Len(points) > 0
  /\ ticks = 2
  /\ stepCount = WARMUP_STEPS + 2
  /\ drawCount = 3

\* C5 as the specification states it: every update step is the one step of one
\* tick and is followed by a draw in that tick, before the first draw too.
C5_OneStepPerTick ==
  [][stepCount' # stepCount
       => /\ stepCount' = stepCount + 1
          /\ ticks' = ticks + 1
          /\ drawCount' > drawCount]_vars

\* the last n elements of the sequence q
LastOf(q, n) == SubSeq(q, Len(q) - n + 1, Len(q))

\* C6: after k non-paused update steps of a boid its turningHistory is the last
\* min(k, TURNING_HISTORY_LENGTH) total deltas of its frames, oldest first, so it
\* is never longer than TURNING_HISTORY_LENGTH.
C6_TurningHistoryIsRecentDeltas ==
  engine = "boids"
    => \A i \in 1..Len(boids) :
         LET k == Len(boids[i].deltas)
         IN  /\ k = stepCount
             /\ Len(boids[i].turningHistory) <= TURNING_HISTORY_LENGTH
             /\ boids[i].turningHistory
                  = LastOf(boids[i].deltas, Min(k, TURNING_HISTORY_LENGTH))

\* a boid that turned, two deltas after its history was full
C6_HistoryEvicted ==
  /\ engine = "boids"
  /\ \E i \in 1..Len(boids) :
       /\ Len(boids[i].deltas) = TURNING_HISTORY_LENGTH + 2
       /\ boids[i].deltas[1] # boids[i].deltas[TURNING_HISTORY_LENGTH + 2]
       /\ boids[i].turningHistory[1] = boids[i].deltas[3]

\* C7: normalizeAngle returns a value in [0, 2 pi) for every input, negative
\* multiples of 2 pi included.
C7_NormalizedInRange ==
  fn = "normalizeAngle" => 0 <= res[1] /\ res[1] < TwoPi

\* C8: normalizeAngle is idempotent: normalizeAngle(normalizeAngle(a)) is
\* normalizeAngle(a) for every angle a.
C8_NormalizeIdempotent ==
  (fn = "normalizeAngle" /\ Len(res) = 2) => res[2] = res[1]

\* C9: for current and target in [0, 2 pi), getSmallestAngleDifference returns r
\* with |r| <= pi and current + r congruent to target modulo 2 pi.
C9_SmallestDifference ==
  fn = "getSmallestAngleDifference"
    => /\ Abs(res[1]) <= Pi
       /\ (args[1] + res[1] - args[2]) % TwoPi = 0

\* the difference was taken around the circle: target - current + 2 pi
C9_AroundTheCircle ==
  /\ fn = "getSmallestAngleDifference"
  /\ res[1] = args[2] - args[1] + TwoPi
  /\ res[1] > 0

\* C10: each component of the delta getTorusDistance returns is at most
\* max(|direct delta|, dimension - |direct delta|) in magnitude, and the wrapped
\* squared distance is at most the squared distance in the plane.
C10_TorusDistance ==
  fn = "getTorusDistance"
    => LET dx0 == args[3] - args[1]
           dy0 == args[4] - args[2]
       IN  /\ Abs(res[1]) <= Max(Abs(dx0), args[5] - Abs(dx0))
           /\ Abs(res[2]) <= Max(Abs(dy0), args[6] - Abs(dy0))
           /\ res[3] = res[1] * res[1] + res[2] * res[2]
           /\ res[3] <= dx0 * dx0 + dy0 * dy0

\* both components were wrapped, between two points on the canvas
C10_WrappedBothWays ==
  /\ fn = "getTorusDistance"
  /\ \A k \in 1..4 : args[k] >= 0
  /\ args[1] < args[5] /\ args[3] < args[5]
  /\ args[2] < args[6] /\ args[4] < args[6]
  /\ res[1] # args[3] - args[1]
  /\ res[2] # args[4] - args[2]
  /\ res[3] < (args[3] - args[1]) * (args[3] - args[1])
                + (args[4] - args[2]) * (args[4] - args[2])

\* the particle of id in the array given to findConnections
ParticleOf(id) == args[1][id + 1]

\* the directions, seen from the particle id, of the connections the call returned,
\* in the order of their acceptance
AcceptedAngles(id) ==
  LET mine == SelectSeq(res.connections, LAMBDA c : c.p1 = id \/ c.p2 = id)
  IN  [k \in 1..Len(mine) |->
         LET other == ParticleOf(IF mine[k].p1 = id THEN mine[k].p2 ELSE mine[k].p1)
         IN  Atan2(other.y - ParticleOf(id).y, other.x - ParticleOf(id).x)]

\* how many returned connections of the particle id point into sector s
AcceptedInSector(id, s) ==
  Cardinality({k \in 1..Len(AcceptedAngles(id)) :
                 getAngularSector(AcceptedAngles(id)[k]) = s})

ParticleIds == {args[1][k].id : k \in 1..Len(args[1])}

\* C11: after findConnections, every particle has at most MAX_PER_SECTOR returned
\* connections in each of its ANGULAR_SECTORS sectors, and at most
\* ANGULAR_SECTORS * MAX_PER_SECTOR in all.
C11_AngularFairnessCap ==
  fn = "findConnections" =>
    \A id \in ParticleIds :
      /\ \A s \in 0..(ANGULAR_SECTORS - 1) : AcceptedInSector(id, s) <= MAX_PER_SECTOR
      /\ Len(AcceptedAngles(id)) <= ANGULAR_SECTORS * MAX_PER_SECTOR

\* a particle whose sector is full has a third neighbour within the radius in that
\* sector, away from the two accepted directions: only the cap keeps it out
C11_SectorFull ==
  /\ fn = "findConnections"
  /\ \E id \in ParticleIds, other \in ParticleIds :
       LET angle == Atan2(ParticleOf(other).y - ParticleOf(id).y,
                          ParticleOf(other).x - ParticleOf(id).x)
       IN  /\ other # id
           /\ Distance(ParticleOf(other).x - ParticleOf(id).x,
                       ParticleOf(other).y - ParticleOf(id).y) < args[2]
           /\ \A k \in 1..Len(res.connections) :
                {res.connections[k].p1, res.connections[k].p2} # {id, other}
           /\ AcceptedInSector(id, getAngularSector(angle)) = MAX_PER_SECTOR
           /\ \A k \in 1..Len(AcceptedAngles(id)) :
                AngleGap(angle, AcceptedAngles(id)[k]) >= ANGULAR_PROXIMITY_THRESHOLD

\* the earlier accepted directions at the particle id that lie within the threshold
\* of its k-th accepted direction
EarlierNearby(id, k) ==
  {j \in 1..(k - 1) :
     AngleGap(AcceptedAngles(id)[k], AcceptedAngles(id)[j]) < ANGULAR_PROXIMITY_THRESHOLD}

\* C12 as amended: a candidate is rejected at an endpoint when MAX_PER_SECTOR
\* connections already accepted at that endpoint lie within
\* ANGULAR_PROXIMITY_THRESHOLD of its direction; so every returned connection has,
\* at each endpoint, fewer than MAX_PER_SECTOR earlier accepted connections within
\* the threshold of its direction.
C12_FewerThanCapNearby ==
  fn = "findConnections" =>
    \A id \in ParticleIds : \A k \in 1..Len(AcceptedAngles(id)) :
      Cardinality(EarlierNearby(id, k)) < MAX_PER_SECTOR

\* a neighbour within the radius was kept out at a particle by the two accepted
\* directions near its own, in a sector that had room
C12_RejectedByProximity ==
  /\ fn = "findConnections"
  /\ \E id \in ParticleIds, other \in ParticleIds :
       LET angle == Atan2(ParticleOf(other).y - ParticleOf(id).y,
                          ParticleOf(other).x - ParticleOf(id).x)
           back == Atan2(ParticleOf(id).y - ParticleOf(other).y,
                         ParticleOf(id).x - ParticleOf(other).x)
       IN  /\ other # id
           /\ Distance(ParticleOf(other).x - ParticleOf(id).x,
                       ParticleOf(other).y - ParticleOf(id).y) < args[2]
           /\ \A k \in 1..Len(res.connections) :
                {res.connections[k].p1, res.connections[k].p2} # {id, other}
           /\ AcceptedInSector(id, getAngularSector(angle)) < MAX_PER_SECTOR
           /\ NearbyCount(AcceptedAngles(id), angle) >= MAX_PER_SECTOR
           /\ canAddConnection(AcceptedAngles(other), back,
                               res.particleSectorCounts[other])

\* C12 as stated: after findConnections no two connections returned at the same
\* particle have directions that differ by less than ANGULAR_PROXIMITY_THRESHOLD.
C12_NoTwoWithinThreshold ==
  fn = "findConnections" =>
    \A id \in ParticleIds : \A k \in 1..Len(AcceptedAngles(id)) :
      EarlierNearby(id, k) = {}

\* the input point of the given id
InputPoint(id) == getPoint(args[1], <<>>, id)

InputIds == {args[1][k].id : k \in 1..Len(args[1])}

\* twice the signed area of the triangle a b c: positive when counter-clockwise
Orientation(a, b, c) == (b.x - a.x) * (c.y - a.y) - (b.y - a.y) * (c.x - a.x)

\* (u.x^2 + u.y^2) * (v.x * w.y - v.y * w.x) for vectors u, v, w
LiftedTimesCross(u, v, w) ==
  LET lifted == WideOf(u.x * u.x + u.y * u.y)
  IN  WideMinus(WideTimes(WideTimes(lifted, v.x), w.y),
                WideTimes(WideTimes(lifted, v.y), w.x))

\* the sign of the in-circle determinant of a, b, c and p
InCircleSign(a, b, c, p) ==
  LET u == [x |-> a.x - p.x, y |-> a.y - p.y]
      v == [x |-> b.x - p.x, y |-> b.y - p.y]
      w == [x |-> c.x - p.x, y |-> c.y - p.y]
  IN  WideSign(WidePlus(LiftedTimesCross(u, v, w),
                        WidePlus(LiftedTimesCross(v, w, u), LiftedTimesCross(w, u, v))))

\* p lies strictly inside the circle through a, b and c
StrictlyInsideCircle(a, b, c, p) ==
  Sign(Orientation(a, b, c)) * InCircleSign(a, b, c, p) > 0

\* C13: for at least 4 input points with distinct non-negative ids, in every
\* insertion order, no triangle triangulate returns has another input point
\* strictly inside its circumcircle.
C13_EmptyCircumcircle ==
  (fn = "triangulate" /\ Len(args[1]) >= 4) =>
    \A t \in 1..Len(res) : \A id \in InputIds \ {res[t].p1, res[t].p2, res[t].p3} :
      ~StrictlyInsideCircle(InputPoint(res[t].p1), InputPoint(res[t].p2),
                            InputPoint(res[t].p3), InputPoint(id))

\* triangles were returned although three of the input points have a fourth
\* strictly inside their circle: that triple is not among the triangles
C13_TripleWithPointInside ==
  /\ fn = "triangulate"
  /\ Len(args[1]) >= 4
  /\ Len(res) >= 2
  /\ \E a \in InputIds, b \in InputIds, c \in InputIds, p \in InputIds :
       /\ Cardinality({a, b, c, p}) = 4
       /\ StrictlyInsideCircle(InputPoint(a), InputPoint(b), InputPoint(c), InputPoint(p))

\* the returned triangles that have the edge between the ids a and b
TrianglesOn(a, b) ==
  {t \in 1..Len(res) : {a, b} \subseteq {res[t].p1, res[t].p2, res[t].p3}}

\* the edges of the returned triangles, as sets of two ids
ReturnedEdges ==
  UNION {{{res[t].p1, res[t].p2}, {res[t].p2, res[t].p3}, {res[t].p3, res[t].p1}} :
           t \in 1..Len(res)}

\* every input point lies on one closed side of the line through a and b
OnConvexHull(a, b) ==
  \/ \A id \in InputIds : Orientation(InputPoint(a), InputPoint(b), InputPoint(id)) >= 0
  \/ \A id \in InputIds : Orientation(InputPoint(a), InputPoint(b), InputPoint(id)) <= 0

\* C14: every edge of the triangles triangulate returns is shared by at most two of
\* them, and by exactly two when it is not on the convex hull of the input points.
C14_EdgesShared ==
  fn = "triangulate" =>
    \A e \in ReturnedEdges : \E a \in e, b \in e :
      /\ a # b
      /\ Cardinality(TrianglesOn(a, b)) <= 2
      /\ OnConvexHull(a, b) \/ Cardinality(TrianglesOn(a, b)) = 2

\* C15: triangulate returns no triangle for fewer than 3 points, and for 3
\* non-collinear points exactly one triangle, whose vertex ids are those three.
C15_Triviality ==
  fn = "triangulate" =>
    /\ Len(args[1]) < 3 => res = <<>>
    /\ (/\ Len(args[1]) = 3
        /\ Orientation(args[1][1], args[1][2], args[1][3]) # 0)
         => /\ Len(res) = 1
            /\ {res[1].p1, res[1].p2, res[1].p3} = InputIds

\* C16: the 4 corners of the unit square and its centre, in any insertion order,
\* give exactly 4 triangles, each with the centre as a vertex.
C16_UnitSquareFan ==
  (fn = "triangulate" /\ args[1] \in UnitSquareArrays) =>
    /\ Len(res) = 4
    /\ \A t \in 1..4 : UnitSquare[5].id \in {res[t].p1, res[t].p2, res[t].p3}

\* the unit square was triangulated with its centre inserted first, before any
\* corner
C16_CentreFirst ==
  /\ fn = "triangulate"
  /\ args[1] \in UnitSquareArrays
  /\ args[1][1] = UnitSquare[5]
  /\ Len(res) > 0

\* how far the bearing of the boid at index j is off the heading of the boid at
\* index i of the flock bs: the posAngle of the boid at i
BearingOff(bs, i, j) ==
  LET t == getTorusDistance(bs[i].x, bs[i].y, bs[j].x, bs[j].y, canvasW, canvasH)
  IN  getSmallestAngleDifference(bs[i].angle, Atan2(t.dy, t.dx))

\* the flock is two boids within SEPARATION_DISTANCE, before a frame that runs with
\* the pointer inactive
PairClose(bs) ==
  /\ Len(bs) = 2
  /\ ~isPaused
  /\ ~mouseActive
  /\ getTorusDistance(bs[1].x, bs[1].y, bs[2].x, bs[2].y, canvasW, canvasH)
       .distanceSquared < SEPARATION_DISTANCE

\* each of the two heads straight at the other
HeadOn(bs) == BearingOff(bs, 1, 2) = 0 /\ BearingOff(bs, 2, 1) = 0

\* the delta the frame recorded for the boid at index i
RecordedDelta(bs, i) == bs[i].turningHistory[Len(bs[i].turningHistory)]

FieldFrame ==
  /\ engine \in {"field", "distortion"}
  /\ ~isPaused
  /\ ~mouseActive
  /\ ticks' = ticks + 1
  /\ Len(points') = Len(points)

\* the velocity of the particle p after the wander push of the frame, before the cap
PushedVelocity(p, wanderAngle) ==
  [vx |-> p.vx + RoundDiv(Cos1000(wanderAngle) * WANDER_STRENGTH, 1000),
   vy |-> p.vy + RoundDiv(Sin1000(wanderAngle) * WANDER_STRENGTH, 1000)]

\* (dx, dy) is no longer than MAX_SPEED * DAMPING, to two units of the fixed point
WithinDampedCap(dx, dy) ==
  dx * dx + dy * dy
    <= (RoundDiv(FIELD_MAX_SPEED * DAMPING, 1000) + 2)
         * (RoundDiv(FIELD_MAX_SPEED * DAMPING, 1000) + 2)

\* the particles before points.forEach of the frame: in the richer variant the
\* repulsion has moved the positions
BeforeForEach ==
  IF engine = "distortion" THEN RicherPairsFrom(points, 1, 2, mouseActive, mousePos)
  ELSE points

\* what the integration of the frame adds to the position of the particle i: the
\* move from its place before points.forEach; at a position that is NaN, where no
\* wall acts, the velocity the frame leaves
IntegrationStep(i) ==
  IF engine = "distortion" /\ ~points[i].xyFinite
  THEN [dx |-> points'[i].vx, dy |-> points'[i].vy]
  ELSE [dx |-> points'[i].x - BeforeForEach[i].x,
        dy |-> points'[i].y - BeforeForEach[i].y]

\* C18 (as amended): in a frame with the pointer inactive the integration adds to
\* the position of a particle a displacement of at most MAX_SPEED * DAMPING (the
\* capped velocity, damped; to two units of the fixed point); that is the
\* particle's whole move of the frame where the repulsion acts on velocities; a
\* single particle at rest moves by the damped wander push alone.
C18_SpeedCap ==
  [][FieldFrame =>
       \A i \in 1..Len(points) :
         LET push == PushedVelocity([vx |-> 0, vy |-> 0], points'[i].wanderAngle)
         IN  /\ WithinDampedCap(IntegrationStep(i).dx, IntegrationStep(i).dy)
             /\ engine = "field"
                  => WithinDampedCap(points'[i].x - points[i].x,
                                     points'[i].y - points[i].y)
             /\ (Len(points) = 1 /\ points[i].vx = 0 /\ points[i].vy = 0)
                  => /\ points'[i].x - points[i].x = RoundDiv(push.vx * DAMPING, 1000)
                     /\ points'[i].y - points[i].y = RoundDiv(push.vy * DAMPING, 1000)]_vars

\* a first frame, the pointer never active, has moved a particle by the capped
\* and damped speed: its velocity was above MAX_SPEED before the cap
C18_Capped ==
  /\ engine \in {"field", "distortion"}
  /\ mounted = "yes"
  /\ ticks = 2
  /\ events = 0
  /\ \E i \in 1..Len(points) :
       LET vx == points[i].x - points[i].baseX
           vy == points[i].y - points[i].baseY
       IN  vx * vx + vy * vy
             >= (RoundDiv(FIELD_MAX_SPEED * DAMPING, 1000) - 1)
                  * (RoundDiv(FIELD_MAX_SPEED * DAMPING, 1000) - 1)

\* C18 (as stated): in a frame with the pointer inactive every particle moves by
\* at most MAX_SPEED * DAMPING.
C18_StepWithinSpeedCap ==
  [][FieldFrame =>
       \A i \in 1..Len(points) :
         WithinDampedCap(points'[i].x - points[i].x, points'[i].y - points[i].y)]_vars

\* the step is a frame of the richer variant that updates
RicherFrame ==
  /\ engine = "distortion"
  /\ ~isPaused
  /\ ticks' = ticks + 1
  /\ Len(points') = Len(points)

\* C19: after every step of the field update the positions and the offsets of all
\* particles are finite: no force term has divided by a distance of 0.
C19_StaysFinite ==
  engine = "distortion"
    => \A i \in 1..Len(points) : points[i].xyFinite /\ points[i].tFinite

\* C20: in every frame of the richer variant that updates with the pointer
\* inactive, each particle's (tx, ty) is multiplied by the decay factor: an
\* offset that is not 0 gets shorter.
C20_DecaysWithoutPointer ==
  [][(RicherFrame /\ ~mouseActive) =>
       \A i \in 1..Len(points) :
         points[i].tFinite
           => /\ points'[i].tx = DecayOffset(points[i]).tx
              /\ points'[i].ty = DecayOffset(points[i]).ty
              /\ (points[i].tx # 0 \/ points[i].ty # 0)
                   => Abs(points'[i].tx) + Abs(points'[i].ty)
                        < Abs(points[i].tx) + Abs(points[i].ty)]_vars

\* the connections given to findTriangles join a and b
Joined(a, b) ==
  \E k \in 1..Len(args[2]) :
    \/ args[2][k].p1 = a /\ args[2][k].p2 = b
    \/ args[2][k].p1 = b /\ args[2][k].p2 = a

\* the sets of three particle ids that are pairwise connected
ThreeCycles ==
  LET ids == {args[1][k].id : k \in 1..Len(args[1])}
  IN  {t \in SUBSET ids :
         /\ Cardinality(t) = 3
         /\ \A a \in t, b \in t : a # b => Joined(a, b)}

\* C21: findTriangles returns one triangle for every three pairwise connected
\* particles and nothing else; no key appears twice; the vertices of a triangle
\* are in ascending id order and its key is the ids joined by '-'.
C21_TrianglesAreThreeCycles ==
  fn = "findTriangles"
    => /\ {{res[k].p1, res[k].p2, res[k].p3} : k \in 1..Len(res)} = ThreeCycles
       /\ Len(res) = Cardinality(ThreeCycles)
       /\ \A k \in 1..Len(res), m \in 1..Len(res) : k # m => res[k].key # res[m].key
       /\ \A k \in 1..Len(res) :
            /\ res[k].p1 < res[k].p2
            /\ res[k].p2 < res[k].p3
            /\ res[k].key = JoinIds(<<res[k].p1, res[k].p2, res[k].p3>>)

\* two triangles are returned from ids of one and two digits, and one of them is
\* met first from its middle vertex
C21_TwoTriangles ==
  /\ fn = "findTriangles"
  /\ Len(res) >= 2
  /\ \E k \in 1..Len(res) : res[k].p1 = 9 /\ res[k].p2 >= 10
  /\ \E k \in 1..Len(res) : res[k].key = <<"9", "-", "1", "1", "-", "1", "2">>

\* the delta of the frame for the boid updated first when neither separation nor
\* alignment contributes: cohesion alone, the pointer inactive
CohesionAlone(bs) ==
  LET b == [bs[1] EXCEPT !.x = WrapCoordinate(bs[1].x, canvasW),
                         !.y = WrapCoordinate(bs[1].y, canvasH)]
  IN  Cohesion([bs EXCEPT ![1] = b], b, canvasW, canvasH).delta

\* C22: in a frame of two boids, pointer inactive, a boid whose nearest neighbour is
\* outside the 270 degree forward cone of its heading (more than LOOKING_ANGLE / 2
\* off it) gets no separation and no alignment: its delta is that of cohesion alone.
C22_NoTurnFromBehind ==
  [][(/\ PairClose(boids)
      /\ ticks' = ticks + 1
      /\ 2 * Abs(BearingOff(boids, 1, 2)) >= LOOKING_ANGLE) =>
       RecordedDelta(boids', 1) = CohesionAlone(boids)]_vars

\* C23: a frame of the boid hook that runs while not paused leaves the flock at the
\* target count of the canvas, and its wrap step brings every boid it keeps inside
\* the canvas: x into [0, width] and y into [0, height], whatever resize came before.
C23_NextTickSelfCorrects ==
  [][(engine = "boids" /\ mounted = "yes" /\ ticks' = ticks + 1 /\ ~isPaused) =>
       /\ Len(boids') = getTargetBoidCount(canvasW, canvasH)
       /\ \A i \in 1..Min(Len(boids), Len(boids')) :
            /\ WrapCoordinate(boids[i].x, canvasW) \in 0..canvasW
            /\ WrapCoordinate(boids[i].y, canvasH) \in 0..canvasH]_vars

\* C24: once the particle hook is mounted, connectionRadius is
\* sqrt(paddedArea / targetCount) * CONNECTION_RADIUS for the current canvas size
\* (an infinity when targetCount is 0), and the number of particles is that same
\* targetCount.
C24_RadiusTracksPopulation ==
  (engine = "field" /\ mounted # "no") =>
    /\ connectionRadius = ConnectionRadiusFor(canvasW, canvasH)
    /\ Len(points) = getTargetParticleCount(canvasW, canvasH)

\* two particles on a canvas whose target is two, the second pushed by
\* adjustParticleCount after a resize had cut the population to one
C24_GrownAfterResize ==
  /\ engine = "field"
  /\ mounted = "yes"
  /\ Len(points) = 2
  /\ points[1].id = 0
  /\ points[2].id = 2
  /\ connectionRadius.kind = "finite"
  /\ connectionRadius = ConnectionRadiusFor(canvasW, canvasH)

\* x, y, vx, vy of a particle, and whether x and y are numbers
Physics(p) == <<p.x, p.y, p.vx, p.vy, p.xyFinite>>

\* C25: two runs of the variant with the distortion offset that start from the same
\* positions, velocities and wander state, see the same random draws, pointer,
\* pauses and resizes, and differ in the initial offsets (tx, ty), hold the same
\* x, y, vx, vy for every particle at every step.
C25_OffsetsDoNotFeedBack ==
  fn = "twin" =>
    /\ Len(res) = Len(points)
    /\ \A i \in 1..Len(points) : Physics(res[i]) = Physics(points[i])

\* after a frame with the pointer within DISTORTION_RADIUS of the first particle:
\* the offsets of the two runs differ, and the particle has moved
C25_OffsetsDiffer ==
  /\ fn = "twin"
  /\ ticks >= 2
  /\ mouseActive
  /\ Len(points) >= 1
  /\ points[1].tFinite /\ res[1].tFinite
  /\ <<points[1].tx, points[1].ty>> # <<res[1].tx, res[1].ty>>
  /\ <<points[1].x, points[1].y>> # <<25 * FP, 25 * FP>>

\* C26: once the cleanup of the effect has run, no frame is queued, no update or
\* draw runs and no resize touches the canvas or the population; while the hook is
\* mounted a frame is queued after the mount and after every tick.
C26_TeardownStopsLoop ==
  [][/\ mounted = "disposed" =>
          /\ mounted' = "disposed"
          /\ UNCHANGED <<ticks, stepCount, drawCount, rafPending, canvasW, canvasH,
                         boids, nextBoidId, textBounds, points, nextId,
                         connectionRadius, rng>>
     /\ mounted' = "disposed" => ~rafPending'
     /\ mounted' = "yes" => rafPending']_vars

\* the cleanup has run after the mount and at least one tick of animate
C26_Disposed ==
  /\ mounted = "disposed"
  /\ ~rafPending
  /\ ticks >= 2
  /\ ticks < MaxTicks
  /\ events < MaxEvents

\* the k-th candidate position drawn by the spawn loop started in state s of
\* Math.random, on a canvas of w by h; the generator is back in its state after
\* RngMod draws
Candidate(s, k, w, h) ==
  [x |-> SPAWN_MARGIN
           + RandomTimes(RngAfter(s, (2 * (k - 1)) % RngMod), w - SPAWN_MARGIN * 2),
   y |-> SPAWN_MARGIN
           + RandomTimes(RngAfter(s, (2 * k - 1) % RngMod), h - SPAWN_MARGIN * 2)]

NearText(w, h, pos) ==
  isNearText(createTextBounds(w, h), pos.x, pos.y, TEXT_AVOIDANCE_DISTANCE)

\* C27: creating one boid draws between 1 and 100 candidate positions and adds one
\* boid, at the last candidate drawn; every candidate before the last was inside the
\* expanded text rectangle; a boid placed inside it means 100 candidates were tried.
C27_SpawnBounded ==
  fn = "SpawnBoid" =>
    LET w == args[1]
        h == args[2]
        s == args[3]
        n == res[2]
        b == res[1][1]
    IN  /\ Len(res[1]) = 1
        /\ n \in 1..100
        /\ \A k \in 1..(n - 1) : NearText(w, h, Candidate(s, k, w, h))
        /\ [x |-> b.x, y |-> b.y] = Candidate(s, n, w, h)
        /\ NearText(w, h, b) => n = 100

\* all 100 candidates fell inside the expanded text rectangle, on a canvas where
\* another state of Math.random finds a free position
C27_AllRejected ==
  /\ fn = "SpawnBoid"
  /\ res[2] = 100
  /\ NearText(args[1], args[2], res[1][1])
  /\ args[1] > TextWidth
  /\ \E s \in 0..(RngMod - 1) : \E k \in 1..4 :
       ~NearText(args[1], args[2], Candidate(s, k, args[1], args[2]))

\* C28: the home view is never showing (isFadedOut false) with the simulation paused:
\* no timer started by a triggerFadeOut before the return to home pauses it after.
C28_NoStalePause == ~(mounted = "yes" /\ ~isFadedOut /\ isPaused)

\* C29: once the particle hook is mounted, the divisor targetCount of the radius is
\* not 0 for the canvas size, and connectionRadius is a finite positive number.
C29_RadiusWellDefined ==
  (engine = "field" /\ mounted # "no") =>
    /\ getTargetParticleCount(canvasW, canvasH) # 0
    /\ connectionRadius.kind = "finite"
    /\ connectionRadius.v > 0

\* the index pairs i < j of pts closer than maxDist
CandidatePairs(pts, maxDist) ==
  {pr \in (1..Len(pts)) \X (1..Len(pts)) :
     /\ pr[1] < pr[2]
     /\ Distance(pts[pr[2]].x - pts[pr[1]].x, pts[pr[2]].y - pts[pr[1]].y) < maxDist}

\* the connection list joins the particles of the index pair pr
Returned(cs, pts, pr) ==
  \E k \in 1..Len(cs) : {cs[k].p1, cs[k].p2} = {pts[pr[1]].id, pts[pr[2]].id}

\* canAddConnection refuses the pair pr at one of its ends, against the maps of r
RefusedAtAnEnd(r, pts, pr) ==
  LET p1 == pts[pr[1]]
      p2 == pts[pr[2]]
      dx == p2.x - p1.x
      dy == p2.y - p1.y
  IN  \/ ~canAddConnection(r.particleAngles[p1.id], Atan2(dy, dx),
                           r.particleSectorCounts[p1.id])
      \/ ~canAddConnection(r.particleAngles[p2.id], Atan2(-dy, -dx),
                           r.particleSectorCounts[p2.id])

\* C30: every connection findConnections returns joins two distinct particles closer
\* than the radius; no pair is returned twice; the list is in non-decreasing order of
\* distance; a shortest pair within the radius is returned first; and every pair
\* within the radius that is not returned is refused by canAddConnection at one of
\* its ends against the final angle lists and sector counts.
C30_GreedySoundAndMaximal ==
  fn = "findConnections" =>
    LET pts == args[1]
        maxDist == args[2]
        cs == res.connections
        cand == CandidatePairs(pts, maxDist)
    IN  /\ \A k \in 1..Len(cs) :
             /\ cs[k].p1 # cs[k].p2
             /\ cs[k].distance < maxDist
             /\ \E pr \in cand :
                  /\ cs[k].p1 = pts[pr[1]].id
                  /\ cs[k].p2 = pts[pr[2]].id
                  /\ cs[k].distance = Distance(pts[pr[2]].x - pts[pr[1]].x,
                                               pts[pr[2]].y - pts[pr[1]].y)
        /\ \A k \in 1..Len(cs), l \in 1..Len(cs) :
             k # l => {cs[k].p1, cs[k].p2} # {cs[l].p1, cs[l].p2}
        /\ \A k \in 1..(Len(cs) - 1) : cs[k].distance <= cs[k + 1].distance
        /\ cand # {} =>
             /\ Len(cs) >= 1
             /\ \A pr \in cand :
                  cs[1].distance <= Distance(pts[pr[2]].x - pts[pr[1]].x,
                                             pts[pr[2]].y - pts[pr[1]].y)
        /\ \A pr \in cand : ~Returned(cs, pts, pr) => RefusedAtAnEnd(res, pts, pr)

\* connections of different lengths were returned, and a pair within the radius was
\* left out
C30_PairLeftOut ==
  /\ fn = "findConnections"
  /\ Len(res.connections) >= 3
  /\ res.connections[1].distance < res.connections[Len(res.connections)].distance
  /\ \E pr \in CandidatePairs(args[1], args[2]) : ~Returned(res.connections, args[1], pr)

====
